---- MODULE Spec2Model ----
(***************************************************************************)
(* Model of the workbook comparison scripts compare_excel_union.py and     *)
(* compare_excel_fullsheet_minimal.py.                                     *)
(*                                                                         *)
(* Text is a sequence of one-character strings.  A cell value is a record  *)
(* [t, s, n]: t = "none" (Python None), "str" (text s) or "int" (number n).*)
(* A coordinate is <<row, col>>; a rectangle is <<r1, c1, r2, c2>>.        *)
(***************************************************************************)
EXTENDS Integers, Sequences, FiniteSets, TLC

(***************************************************************************)
(* Bounds of the model                                                     *)
(***************************************************************************)
MaxRow == 3
MaxCol == 3

Rows == 1..MaxRow
Cols == 1..MaxCol
Coords == Rows \X Cols

(***************************************************************************)
(* Text helpers (Python str methods used by the scripts)                   *)
(***************************************************************************)
UpperChars == <<"A","B","C","D","E","F","G","H","I","J","K","L","M",
                "N","O","P","Q","R","S","T","U","V","W","X","Y","Z">>
LowerChars == <<"a","b","c","d","e","f","g","h","i","j","k","l","m",
                "n","o","p","q","r","s","t","u","v","w","x","y","z">>
DigitChars == <<"0","1","2","3","4","5","6","7","8","9">>

LowerChar(ch) ==
    IF \E k \in 1..26 : UpperChars[k] = ch
    THEN LowerChars[CHOOSE k \in 1..26 : UpperChars[k] = ch]
    ELSE ch

\* str.lower()
Lower(s) == [k \in 1..Len(s) |-> LowerChar(s[k])]

IsSpace(ch) == ch = " "

\* str.strip()
Strip(s) ==
    LET nonsp == {k \in 1..Len(s) : ~IsSpace(s[k])}
    IN  IF nonsp = {} THEN <<>>
        ELSE LET lo == CHOOSE k \in nonsp : \A m \in nonsp : k <= m
                 hi == CHOOSE k \in nonsp : \A m \in nonsp : k >= m
             IN  SubSeq(s, lo, hi)

\* str.isdigit()
IsDigit(s) ==
    /\ Len(s) > 0
    /\ \A k \in 1..Len(s) : \E d \in 1..10 : DigitChars[d] = s[k]

\* str.startswith(p)
StartsWith(s, p) == Len(p) <= Len(s) /\ SubSeq(s, 1, Len(p)) = p

\* str.endswith(p)
EndsWith(s, p) == Len(p) <= Len(s) /\ SubSeq(s, Len(s) - Len(p) + 1, Len(s)) = p

\* p in s
Contains(s, p) ==
    \E k \in 1..(Len(s) - Len(p) + 1) : SubSeq(s, k, k + Len(p) - 1) = p

RECURSIVE IntToStr(_)
\* str(n) for a non-negative int
IntToStr(n) ==
    IF n < 10 THEN <<DigitChars[n + 1]>>
    ELSE IntToStr(n \div 10) \o <<DigitChars[(n % 10) + 1]>>

(***************************************************************************)
(* Cell values                                                             *)
(***************************************************************************)
None == [t |-> "none", s |-> <<>>, n |-> 0]
StrVal(s) == [t |-> "str", s |-> s, n |-> 0]
IntVal(n) == [t |-> "int", s |-> <<>>, n |-> n]

IsNone(v) == v.t = "none"
IsStr(v) == v.t = "str"

\* str(value)
PyStr(v) ==
    IF v.t = "str" THEN v.s
    ELSE IF v.t = "int" THEN IntToStr(v.n)
    ELSE <<"N","o","n","e">>

safe_str(value) == IF ~IsNone(value) THEN PyStr(value) ELSE <<"N","o","n","e">>

(***************************************************************************)
(* Cell styles                                                             *)
(***************************************************************************)
\* openpyxl Color: rgb = <<>> when unset, indexed / theme = -1 when None
RgbColor(hex) == [isnone |-> FALSE, rgb |-> hex, indexed |-> -1, theme |-> -1]
IndexedColor(k) == [isnone |-> FALSE, rgb |-> <<>>, indexed |-> k, theme |-> -1]
ThemeColor(k) == [isnone |-> FALSE, rgb |-> <<>>, indexed |-> -1, theme |-> k]
NoColor == [isnone |-> TRUE, rgb |-> <<>>, indexed |-> -1, theme |-> -1]

DefaultColor == RgbColor(<<"0","0","0","0","0","0","0","0">>)
DefaultFont == [name |-> "Calibri", bold |-> FALSE, italic |-> FALSE,
                underline |-> "None", size |-> 11]
BoldFont == [DefaultFont EXCEPT !.bold = TRUE]
DefaultAlignment == [horizontal |-> "None", vertical |-> "None"]
CenterAlignment == [horizontal |-> "center", vertical |-> "None"]
NoBorder == [left |-> "None", right |-> "None", top |-> "None", bottom |-> "None"]
ThinBorder == [left |-> "thin", right |-> "thin", top |-> "thin", bottom |-> "thin"]

\* a cell the workbook never wrote
DefaultCell == [value |-> None, font |-> DefaultFont, alignment |-> DefaultAlignment,
                fill |-> [start_color |-> DefaultColor], border |-> NoBorder]

(***************************************************************************)
(* Program state                                                           *)
(***************************************************************************)
VARIABLES
    script,               \* "union" or "minimal": which of the two scripts runs
    IGNORED_COLORS,       \* configuration: list of color tokens
    CELLS_TO_BE_ADDED,    \* configuration: list of force-include range entries
    IGNORED_RANGES,       \* configuration: list of ignored range entries
    wb_sample,            \* sample workbook: [sheetnames, sheets]
    wb_imr,               \* generated (IMR) workbook: [sheetnames, sheets]
    sheet_idx,            \* position of the main loop in ordered_sheetnames
    pc,                   \* position inside the loop body
    issues_count,
    ignored_issues_count,
    ws_out,               \* primary issue records of the current sheet
    ignored_issues,       \* ignored bucket of the current sheet
    seen_pairs,
    processed_cells,
    union_tables,         \* union: union_tables; minimal: sample ranges + imr ranges
    table_cells,          \* union_table_cells / table_cells
    compare_log,          \* history: every compare_cell invocation of the sheet
    key_log,              \* history: every key of the union key/value scan, with its scan
    table_log,            \* history: header maps and pairing of each table
    wb_output,            \* titles of the report sheets created so far
    summary_ws            \* rows of the Summary sheet

vars == <<script, IGNORED_COLORS, CELLS_TO_BE_ADDED, IGNORED_RANGES, wb_sample, wb_imr,
          sheet_idx, pc, issues_count, ignored_issues_count, ws_out, ignored_issues,
          seen_pairs, processed_cells, union_tables, table_cells, compare_log,
          key_log, table_log, wb_output, summary_ws>>

inputs == <<script, IGNORED_COLORS, CELLS_TO_BE_ADDED, IGNORED_RANGES, wb_sample, wb_imr>>

(***************************************************************************)
(* Sheet access (openpyxl worksheet)                                       *)
(***************************************************************************)
\* ws.cell(row, column): cells never written read as default cells
Cell(sheet, row, col) ==
    IF <<row, col>> \in DOMAIN sheet.cells THEN sheet.cells[<<row, col>>] ELSE DefaultCell

SetMax(S) == CHOOSE x \in S : \A y \in S : x >= y
SetMin(S) == CHOOSE x \in S : \A y \in S : x <= y

\* ws.max_row: the largest row that holds a cell, 1 for an empty sheet
max_row(sheet) ==
    SetMax({1} \cup {p[1] : p \in DOMAIN sheet.cells}
               \cup {sheet.merged[k][3] : k \in 1..Len(sheet.merged)})

\* ws.max_column
max_column(sheet) ==
    SetMax({1} \cup {p[2] : p \in DOMAIN sheet.cells}
               \cup {sheet.merged[k][4] : k \in 1..Len(sheet.merged)})

NoRange == <<>>

get_merged_range(sheet, row, col) ==
    LET hits == {k \in 1..Len(sheet.merged) :
                    /\ sheet.merged[k][1] <= row /\ row <= sheet.merged[k][3]
                    /\ sheet.merged[k][2] <= col /\ col <= sheet.merged[k][4]}
    IN  IF hits = {} THEN NoRange ELSE sheet.merged[SetMin(hits)]

get_top_left_coords(sheet, row, col) ==
    LET merged == get_merged_range(sheet, row, col)
    IN  IF merged # NoRange THEN <<merged[1], merged[2]>> ELSE <<row, col>>

get_effective_value(sheet, row, col) ==
    LET tl == get_top_left_coords(sheet, row, col)
    IN  Cell(sheet, tl[1], tl[2]).value

(***************************************************************************)
(* Cell comparison                                                         *)
(***************************************************************************)
normalize_color(color) ==
    IF color.isnone THEN <<"N","o","n","e">>
    ELSE IF color.rgb # <<>> THEN color.rgb
    ELSE IF color.indexed # -1
         THEN <<"i","n","d","e","x","e","d",":">> \o IntToStr(color.indexed)
    ELSE IF color.theme # -1
         THEN <<"t","h","e","m","e",":">> \o IntToStr(color.theme)
    ELSE <<"C","o","l","o","r">>

Issue(type, sample, generated) == [type |-> type, sample |-> sample, generated |-> generated]

compare_fonts(f1, f2) ==
    IF \/ f1.name # f2.name \/ f1.bold # f2.bold \/ f1.italic # f2.italic
       \/ f1.underline # f2.underline \/ f1.size # f2.size
    THEN <<Issue("Font Mismatch", f1, f2)>>
    ELSE <<>>

compare_alignment(a1, a2) ==
    IF a1.horizontal # a2.horizontal \/ a1.vertical # a2.vertical
    THEN <<Issue("Alignment Mismatch", a1, a2)>>
    ELSE <<>>

compare_fill(f1, f2) ==
    IF normalize_color(f1.start_color) # normalize_color(f2.start_color)
    THEN <<Issue("Fill Mismatch", normalize_color(f1.start_color),
                 normalize_color(f2.start_color))>>
    ELSE <<>>

compare_border(b1, b2) ==
    IF b1 # b2 THEN <<Issue("Border Mismatch", b1, b2)>> ELSE <<>>

compare_cell(cell_sample_format, cell_imr_format, cell_sample_val, cell_imr_val) ==
    (IF safe_str(cell_sample_val) # safe_str(cell_imr_val)
     THEN <<Issue("Value Mismatch", safe_str(cell_sample_val), safe_str(cell_imr_val))>>
     ELSE <<>>)
    \o compare_fonts(cell_sample_format.font, cell_imr_format.font)
    \o compare_alignment(cell_sample_format.alignment, cell_imr_format.alignment)
    \o compare_fill(cell_sample_format.fill, cell_imr_format.fill)
    \o compare_border(cell_sample_format.border, cell_imr_format.border)

(***************************************************************************)
(* Ignore policy                                                           *)
(***************************************************************************)
is_ignored_color(cell) ==
    IF Len(IGNORED_COLORS) = 0 \/ IGNORED_COLORS[1] = <<>> THEN FALSE
    ELSE LET cell_color == normalize_color(cell.fill.start_color)
         IN  \E k \in 1..Len(IGNORED_COLORS) :
                LET ignored_color_clean == Strip(IGNORED_COLORS[k])
                IN  /\ ignored_color_clean # <<>>
                    /\ \/ cell_color = ignored_color_clean
                       \/ /\ StartsWith(ignored_color_clean, <<"F","F">>)
                          /\ EndsWith(cell_color,
                                      SubSeq(ignored_color_clean, 3, Len(ignored_color_clean)))
                       \/ Contains(cell_color, <<"t","h","e","m","e",":">> \o ignored_color_clean)
                       \/ Contains(cell_color,
                                   <<"i","n","d","e","x","e","d",":">> \o ignored_color_clean)

\* A configured range string: "" (kind "empty"), whitespace (kind "blank"), text that
\* range_boundaries rejects (kind "bad"), or an A1:B5 style range (kind "range").
RangeEntry(r1, c1, r2, c2) ==
    [kind |-> "range", min_col |-> c1, min_row |-> r1, max_col |-> c2, max_row |-> r2]
EmptyEntry == [kind |-> "empty", min_col |-> 0, min_row |-> 0, max_col |-> 0, max_row |-> 0]
BlankEntry == [EmptyEntry EXCEPT !.kind = "blank"]
BadEntry == [EmptyEntry EXCEPT !.kind = "bad"]

\* cell_range_str.strip()
StripEntry(e) == IF e.kind = "blank" THEN EmptyEntry ELSE e

parse_cell_range(cell_range_str) ==
    IF cell_range_str.kind = "range"
    THEN <<cell_range_str.min_row, cell_range_str.min_col,
           cell_range_str.max_row, cell_range_str.max_col>>
    ELSE NoRange

InRangeList(ranges, row, col) ==
    IF Len(ranges) = 0 \/ ranges[1].kind = "empty" THEN FALSE
    ELSE \E k \in 1..Len(ranges) :
            LET cell_range_str == StripEntry(ranges[k])
                parsed_range == parse_cell_range(cell_range_str)
            IN  /\ cell_range_str.kind # "empty"
                /\ parsed_range # NoRange
                /\ parsed_range[1] <= row /\ row <= parsed_range[3]
                /\ parsed_range[2] <= col /\ col <= parsed_range[4]

is_cell_in_added_ranges(row, col) == InRangeList(CELLS_TO_BE_ADDED, row, col)

is_cell_in_ignored_ranges(row, col) == InRangeList(IGNORED_RANGES, row, col)

is_cell_in_ignored_range(sheet, row, col) ==
    IF is_cell_in_added_ranges(row, col) THEN FALSE
    ELSE IF is_ignored_color(Cell(sheet, row, col)) THEN TRUE
    ELSE LET merged_range == get_merged_range(sheet, row, col)
         IN  /\ merged_range # NoRange
             /\ is_ignored_color(Cell(sheet, merged_range[1], merged_range[2]))

is_cell_ignored(ws_sample, ws_imr, row, col) ==
    IF is_cell_in_added_ranges(row, col) THEN FALSE
    ELSE IF is_cell_in_ignored_ranges(row, col) THEN TRUE
    ELSE IF is_cell_in_ignored_range(ws_sample, row, col) THEN TRUE
    ELSE is_cell_in_ignored_range(ws_imr, row, col)

(***************************************************************************)
(* Table detection                                                         *)
(***************************************************************************)
has_border(cell) ==
    LET b == cell.border
    IN  b.left # "None" \/ b.right # "None" \/ b.top # "None" \/ b.bottom # "None"

RECURSIVE GrowEndRow(_, _, _)
\* the first while loop of find_bordered_tables
GrowEndRow(sheet, j, end_row) ==
    IF /\ end_row + 1 <= max_row(sheet)
       /\ \E k \in j..max_column(sheet) : has_border(Cell(sheet, end_row + 1, k))
    THEN GrowEndRow(sheet, j, end_row + 1)
    ELSE end_row

RECURSIVE GrowEndCol(_, _, _, _)
\* the second while loop of find_bordered_tables
GrowEndCol(sheet, i, end_row, end_col) ==
    IF /\ end_col + 1 <= max_column(sheet)
       /\ \E k \in i..end_row : has_border(Cell(sheet, k, end_col + 1))
    THEN GrowEndCol(sheet, i, end_row, end_col + 1)
    ELSE end_col

RectCells(rect) == (rect[1]..rect[3]) \X (rect[2]..rect[4])

RECURSIVE FindTablesUnvisited(_, _, _, _)
\* FindTablesFrom that starts a rectangle at every bordered cell, visited or not
FindTablesUnvisited(sheet, n, visited, tables) ==
    IF n >= max_row(sheet) * max_column(sheet) THEN tables
    ELSE LET i == (n \div max_column(sheet)) + 1
             j == (n % max_column(sheet)) + 1
         IN  IF ~has_border(Cell(sheet, i, j))
             THEN FindTablesUnvisited(sheet, n + 1, visited, tables)
             ELSE FindTablesUnvisited(sheet, n + 1, visited,
                                      Append(tables, <<i, j, GrowEndRow(sheet, j, i),
                                                       GrowEndCol(sheet, i,
                                                                  GrowEndRow(sheet, j, i),
                                                                  j)>>))

RECURSIVE FindTablesFrom(_, _, _, _)
\* the row-major scan of find_bordered_tables; n counts the cells already scanned
FindTablesFrom(sheet, n, visited, tables) ==
    IF n >= max_row(sheet) * max_column(sheet) THEN tables
    ELSE LET i == (n \div max_column(sheet)) + 1
             j == (n % max_column(sheet)) + 1
         IN  IF <<i, j>> \in visited \/ ~has_border(Cell(sheet, i, j))
             THEN FindTablesFrom(sheet, n + 1, visited, tables)
             ELSE LET end_row == GrowEndRow(sheet, j, i)
                      end_col == GrowEndCol(sheet, i, end_row, j)
                      rect == <<i, j, end_row, end_col>>
                  IN  FindTablesFrom(sheet, n + 1, visited \cup RectCells(rect),
                                     Append(tables, rect))

find_bordered_tables(sheet) == FindTablesFrom(sheet, 0, {}, <<>>)

(***************************************************************************)
(* Union of rectangles                                                     *)
(***************************************************************************)
\* variant: rectangles that only touch are not taken as mergeable
rectangles_overlap_only(a, b) ==
    IF a[3] < b[1] THEN FALSE
    ELSE IF b[3] < a[1] THEN FALSE
    ELSE IF a[4] < b[2] THEN FALSE
    ELSE IF b[4] < a[2] THEN FALSE
    ELSE TRUE

rectangles_overlap_or_touch(a, b) ==
    IF a[3] < b[1] - 1 THEN FALSE
    ELSE IF b[3] < a[1] - 1 THEN FALSE
    ELSE IF a[4] < b[2] - 1 THEN FALSE
    ELSE IF b[4] < a[2] - 1 THEN FALSE
    ELSE TRUE

Min2(x, y) == IF x <= y THEN x ELSE y
Max2(x, y) == IF x >= y THEN x ELSE y

merge_two_rects(a, b) ==
    <<Min2(a[1], b[1]), Min2(a[2], b[2]), Max2(a[3], b[3]), Max2(a[4], b[4])>>

RECURSIVE MergeInner(_, _, _, _, _)
\* the for-j loop of merge_rectangles: [current, used, changed]
MergeInner(rects, j, current, used, changed) ==
    IF j > Len(rects) THEN [current |-> current, used |-> used, changed |-> changed]
    ELSE IF j \in used THEN MergeInner(rects, j + 1, current, used, changed)
    ELSE IF rectangles_overlap_or_touch(current, rects[j])
         THEN MergeInner(rects, j + 1, merge_two_rects(current, rects[j]),
                         used \cup {j}, TRUE)
         ELSE MergeInner(rects, j + 1, current, used, changed)

RECURSIVE MergeOuter(_, _, _, _, _)
\* the for-i loop of merge_rectangles: [rects, changed]
MergeOuter(rects, i, new_rects, used, changed) ==
    IF i > Len(rects) THEN [rects |-> new_rects, changed |-> changed]
    ELSE IF i \in used THEN MergeOuter(rects, i + 1, new_rects, used, changed)
    ELSE LET inner == MergeInner(rects, i + 1, rects[i], used, changed)
         IN  MergeOuter(rects, i + 1, Append(new_rects, inner.current),
                        inner.used \cup {i}, inner.changed)

\* MergeWhile that stops after one round
MergeOnce(rects, changed) ==
    IF changed /\ Len(rects) > 1
    THEN MergeOuter(rects, 1, <<>>, {}, FALSE).rects
    ELSE rects

RECURSIVE MergeWhile(_, _)
\* the while loop of merge_rectangles
MergeWhile(rects, changed) ==
    IF changed /\ Len(rects) > 1
    THEN LET round == MergeOuter(rects, 1, <<>>, {}, FALSE)
         IN  MergeWhile(round.rects, round.changed)
    ELSE rects

merge_rectangles(rects) == MergeWhile(rects, TRUE)

(***************************************************************************)
(* Header similarity (difflib.SequenceMatcher.ratio) and column pairing    *)
(***************************************************************************)
RECURSIVE MatchLen(_, _, _, _, _, _)
\* length of the common run of a and b that starts at a[i], b[j]
MatchLen(a, b, i, j, ahi, bhi) ==
    IF i > ahi \/ j > bhi \/ a[i] # b[j] THEN 0
    ELSE 1 + MatchLen(a, b, i + 1, j + 1, ahi, bhi)

\* SequenceMatcher.find_longest_match on a[alo..ahi], b[blo..bhi] (no junk):
\* the longest block, then the earliest in a, then the earliest in b
find_longest_match(a, b, alo, ahi, blo, bhi) ==
    LET cands == {<<i, j, MatchLen(a, b, i, j, ahi, bhi)>> : i \in alo..ahi, j \in blo..bhi}
        better(x, y) == \/ x[3] > y[3]
                        \/ x[3] = y[3] /\ x[1] < y[1]
                        \/ x[3] = y[3] /\ x[1] = y[1] /\ x[2] <= y[2]
    IN  IF cands = {} THEN <<alo, blo, 0>>
        ELSE CHOOSE x \in cands : \A y \in cands : better(x, y)

RECURSIVE MatchingSize(_, _, _, _, _, _)
\* total size of SequenceMatcher.get_matching_blocks
MatchingSize(a, b, alo, ahi, blo, bhi) ==
    IF alo > ahi \/ blo > bhi THEN 0
    ELSE LET m == find_longest_match(a, b, alo, ahi, blo, bhi)
         IN  IF m[3] = 0 THEN 0
             ELSE m[3] + MatchingSize(a, b, alo, m[1] - 1, blo, m[2] - 1)
                       + MatchingSize(a, b, m[1] + m[3], ahi, m[2] + m[3], bhi)

\* a score is a fraction <<numerator, denominator>>
ScoreGt(x, y) == x[1] * y[2] > y[1] * x[2]

similarity_threshold == <<72, 100>>

header_similarity(text_a, text_b) ==
    LET a == Lower(Strip(text_a))
        b == Lower(Strip(text_b))
    IN  IF a = <<>> \/ b = <<>> THEN <<0, 1>>
        ELSE IF a = b THEN <<1, 1>>
        ELSE <<2 * MatchingSize(a, b, 1, Len(a), 1, Len(b)), Len(a) + Len(b)>>

\* A dict is a sequence of <<key, value>> in insertion order.
DictKeys(d) == [k \in 1..Len(d) |-> d[k][1]]
DictHas(d, key) == \E k \in 1..Len(d) : d[k][1] = key
DictGet(d, key) == d[CHOOSE k \in 1..Len(d) : d[k][1] = key][2]
\* d[key] = val
DictSet(d, key, val) ==
    IF DictHas(d, key)
    THEN [k \in 1..Len(d) |-> IF d[k][1] = key THEN <<key, val>> ELSE d[k]]
    ELSE Append(d, <<key, val>>)

SeqIndex(seq, x) == SetMin({k \in 1..Len(seq) : seq[k] = x})

\* ExactPass that pairs nothing
ExactPassNone(sample_headers, header_imr_map, k, acc) == acc

RECURSIVE ExactPass(_, _, _, _)
\* first pass of pair_columns_order_preserving; acc = [paired, used_imr]
ExactPass(sample_headers, header_imr_map, k, acc) ==
    IF k > Len(sample_headers) THEN acc
    ELSE IF DictHas(header_imr_map, sample_headers[k]) /\ sample_headers[k] \notin acc.used_imr
    THEN ExactPass(sample_headers, header_imr_map, k + 1,
                   [paired |-> Append(acc.paired, <<sample_headers[k], sample_headers[k]>>),
                    used_imr |-> acc.used_imr \cup {sample_headers[k]}])
    ELSE ExactPass(sample_headers, header_imr_map, k + 1, acc)

RECURSIVE BestHeaderLast(_, _, _, _, _)
\* BestHeader that also replaces the best header on an equal score
BestHeaderLast(s_hdr, imr_headers, used_imr, k, best) ==
    IF k > Len(imr_headers) THEN best
    ELSE IF /\ imr_headers[k] \notin used_imr
            /\ ~ScoreGt(best.best_score, header_similarity(s_hdr, imr_headers[k]))
    THEN BestHeaderLast(s_hdr, imr_headers, used_imr, k + 1,
                        [found |-> TRUE, best_hdr |-> imr_headers[k],
                         best_score |-> header_similarity(s_hdr, imr_headers[k])])
    ELSE BestHeaderLast(s_hdr, imr_headers, used_imr, k + 1, best)

RECURSIVE BestHeader(_, _, _, _, _)
\* the inner loop of the fuzzy pass; best = [found, best_hdr, best_score],
\* found = best_hdr is not None
BestHeader(s_hdr, imr_headers, used_imr, k, best) ==
    IF k > Len(imr_headers) THEN best
    ELSE IF /\ imr_headers[k] \notin used_imr
            /\ ScoreGt(header_similarity(s_hdr, imr_headers[k]), best.best_score)
    THEN BestHeader(s_hdr, imr_headers, used_imr, k + 1,
                    [found |-> TRUE, best_hdr |-> imr_headers[k],
                     best_score |-> header_similarity(s_hdr, imr_headers[k])])
    ELSE BestHeader(s_hdr, imr_headers, used_imr, k + 1, best)

\* NoBest with the best score starting at 0 instead of the threshold
NoBestZero == [found |-> FALSE, best_hdr |-> <<>>, best_score |-> <<0, 1>>]

NoBest == [found |-> FALSE, best_hdr |-> <<>>, best_score |-> similarity_threshold]

\* FuzzyStep that leaves the best header free for later sample headers
FuzzyStepUnmarked(acc, s_hdr, best) ==
    IF best.found
    THEN [paired |-> Append(acc.paired, <<s_hdr, best.best_hdr>>), used_imr |-> acc.used_imr]
    ELSE acc

\* the end of the fuzzy loop body: pair the sample header with the best header, if any
FuzzyStep(acc, s_hdr, best) ==
    IF best.found
    THEN [paired |-> Append(acc.paired, <<s_hdr, best.best_hdr>>),
          used_imr |-> acc.used_imr \cup {best.best_hdr}]
    ELSE acc

RECURSIVE FuzzyPass(_, _, _, _)
\* second pass of pair_columns_order_preserving; acc = [paired, used_imr]
FuzzyPass(sample_headers, imr_headers, k, acc) ==
    IF k > Len(sample_headers) THEN acc
    ELSE IF \E p \in 1..Len(acc.paired) : acc.paired[p][1] = sample_headers[k]
    THEN FuzzyPass(sample_headers, imr_headers, k + 1, acc)
    ELSE FuzzyPass(sample_headers, imr_headers, k + 1,
                   FuzzyStep(acc, sample_headers[k],
                             BestHeader(sample_headers[k], imr_headers, acc.used_imr, 1,
                                        NoBest)))

\* list.sort(key = position of the sample header): the pairs hold distinct sample headers
SortBySampleIndex(paired, sample_headers) ==
    LET pos(p) == SeqIndex(sample_headers, paired[p][1])
        rank(p) == Cardinality({q \in 1..Len(paired) : pos(q) < pos(p)}) + 1
    IN  [n \in 1..Len(paired) |-> paired[CHOOSE p \in 1..Len(paired) : rank(p) = n]]

\* the three results of pair_columns_order_preserving from the sorted pairs
PairingResult(sample_headers, imr_headers, paired) ==
    LET NotMatchedSample(x) == \A p \in 1..Len(paired) : paired[p][1] # x
        NotMatchedImr(x) == \A p \in 1..Len(paired) : paired[p][2] # x
    IN  [paired |-> paired,
         missing_in_imr |-> SelectSeq(sample_headers, NotMatchedSample),
         missing_in_sample |-> SelectSeq(imr_headers, NotMatchedImr)]

\* the pairs after both passes, before the sort
PairedColumns(sample_headers, imr_headers, header_imr_map) ==
    FuzzyPass(sample_headers, imr_headers, 1,
              ExactPass(sample_headers, header_imr_map, 1,
                        [paired |-> <<>>, used_imr |-> {}])).paired

pair_columns_order_preserving(header_sample_map, header_imr_map) ==
    PairingResult(DictKeys(header_sample_map), DictKeys(header_imr_map),
                  SortBySampleIndex(PairedColumns(DictKeys(header_sample_map),
                                                  DictKeys(header_imr_map), header_imr_map),
                                    DictKeys(header_sample_map)))

(***************************************************************************)
(* Main loop: the sheet under comparison and its accumulators              *)
(***************************************************************************)
InSeq(seq, x) == \E k \in 1..Len(seq) : seq[k] = x

\* ordered_sheetnames with the IMR sheets first, then the sample-only sheets
imr_first_sheetnames ==
    LET SampleOnly(x) == ~InSeq(wb_imr.sheetnames, x)
    IN  wb_imr.sheetnames \o SelectSeq(wb_sample.sheetnames, SampleOnly)

\* sample sheets first, then IMR-only sheets
ordered_sheetnames ==
    LET ImrOnly(x) == ~InSeq(wb_sample.sheetnames, x)
    IN  wb_sample.sheetnames \o SelectSeq(wb_imr.sheetnames, ImrOnly)

sheet_name == ordered_sheetnames[sheet_idx]
ws_sample == wb_sample.sheets[sheet_name]
ws_imr == wb_imr.sheets[sheet_name]

is_top_left_position(r, c) ==
    LET s == get_top_left_coords(ws_sample, r, c)
        i == get_top_left_coords(ws_imr, r, c)
    IN  (r = s[1] /\ c = s[2]) \/ (r = i[1] /\ c = i[2])

canonical_pair_for(r, c) ==
    LET s == get_top_left_coords(ws_sample, r, c)
        i == get_top_left_coords(ws_imr, r, c)
    IN  <<s[1], s[2], i[1], i[2]>>

EmptyText == <<>>
NoName == StrVal(EmptyText)

\* the accumulators of one sheet, as the passes thread them
Acc == [ws_out |-> ws_out, issues_count |-> issues_count,
        ignored_issues |-> ignored_issues, ignored_issues_count |-> ignored_issues_count,
        seen_pairs |-> seen_pairs, processed_cells |-> processed_cells,
        compare_log |-> compare_log, key_log |-> key_log, table_log |-> table_log,
        table_cells |-> table_cells, wb_output |-> wb_output]

\* ensure_ws_out of the minimal script: the report sheet is created on first use
ensure_ws_out(st) ==
    IF InSeq(st.wb_output, sheet_name) THEN st
    ELSE [st EXCEPT !.wb_output = Append(@, sheet_name)]

\* one report row per issue of a compared pair, to the ignored bucket or to ws_out
Route(st, coord, name, column, issues, is_ignored) ==
    LET rows == [k \in 1..Len(issues) |->
                    [cell |-> coord, name |-> name, column |-> column,
                     type |-> issues[k].type, sample |-> issues[k].sample,
                     generated |-> issues[k].generated]]
    IN  IF Len(issues) = 0 THEN st
        ELSE IF is_ignored
        THEN [st EXCEPT !.ignored_issues = @ \o rows,
                        !.ignored_issues_count = @ + Len(rows)]
        ELSE [ensure_ws_out(st) EXCEPT !.ws_out = @ \o rows,
                                       !.issues_count = @ + Len(rows)]

\* history of compare_cell invocations
Logged(st, pass, r, c, pair_key, issues) ==
    [st EXCEPT !.compare_log = Append(@, [pass |-> pass, r |-> r, c |-> c,
                                         pair |-> pair_key, n |-> Len(issues)])]

(***************************************************************************)
(* compare_excel_union.py: table pass                                      *)
(***************************************************************************)
\* HeaderValue that keeps the surrounding whitespace
HeaderValueUnstripped(v) == v

\* header cell text as the header map stores it: strings are stripped
HeaderValue(v) == IF IsStr(v) THEN StrVal(Strip(v.s)) ELSE v

\* hs not in (None, "")
HeaderPresent(v) == ~IsNone(v) /\ ~(IsStr(v) /\ v.s = EmptyText)

RECURSIVE BuildHeaderMap(_, _, _, _, _)
\* header_sample_map / header_imr_map over the header row of a table
BuildHeaderMap(sheet, start_row, c, end_col, map) ==
    IF c > end_col THEN map
    ELSE LET h == HeaderValue(get_effective_value(sheet, start_row, c))
         IN  BuildHeaderMap(sheet, start_row, c + 1, end_col,
                            IF HeaderPresent(h) THEN DictSet(map, PyStr(h), c) ELSE map)

HeaderRow(coord, name, column, type, sample, generated) ==
    [cell |-> coord, name |-> name, column |-> column, type |-> type,
     sample |-> sample, generated |-> generated]

HeaderText == <<"H","e","a","d","e","r">>

\* HeaderMismatchRows that reports no pair
NoHeaderMismatchRows(paired_cols, k, header_sample_map, start_row) == <<>>

RECURSIVE HeaderMismatchRows(_, _, _, _)
\* Value Mismatch rows of the paired headers whose texts differ
HeaderMismatchRows(paired_cols, k, header_sample_map, start_row) ==
    IF k > Len(paired_cols) THEN <<>>
    ELSE LET s_hdr == paired_cols[k][1]
             i_hdr == paired_cols[k][2]
             rest == HeaderMismatchRows(paired_cols, k + 1, header_sample_map, start_row)
         IN  IF s_hdr # i_hdr
             THEN <<HeaderRow(<<start_row, DictGet(header_sample_map, s_hdr)>>,
                              StrVal(HeaderText), StrVal(s_hdr), "Value Mismatch", s_hdr,
                              i_hdr)>>
                  \o rest
             ELSE rest

MissingInReportRows(missing_in_imr, header_sample_map, start_row) ==
    [k \in 1..Len(missing_in_imr) |->
        HeaderRow(<<start_row, DictGet(header_sample_map, missing_in_imr[k])>>, NoName,
                  StrVal(missing_in_imr[k]), "Missing in report", missing_in_imr[k],
                  EmptyText)]

\* MissingInSampleRows that reports no IMR-only column
MissingInSampleNone(missing_in_sample, header_imr_map, start_row) == <<>>

MissingInSampleRows(missing_in_sample, header_imr_map, start_row) ==
    [k \in 1..Len(missing_in_sample) |->
        HeaderRow(<<start_row, DictGet(header_imr_map, missing_in_sample[k])>>, NoName,
                  StrVal(missing_in_sample[k]), "Missing in sample", EmptyText,
                  missing_in_sample[k])]

\* the skip at the top of the data loop of the union table pass
UnionTableSkip(r, c_s, c_i) ==
    is_cell_in_ignored_ranges(r, c_s) /\ is_cell_in_ignored_ranges(r, c_i)

\* "Consider ignored if either side is ignored"
UnionTableIgnored(r, c_s, c_i) ==
    is_cell_ignored(ws_sample, ws_imr, r, c_s) \/ is_cell_ignored(ws_sample, ws_imr, r, c_i)

\* the dedup gate of the union table pass: once per (row, sample_col, imr_col)
UnionTableSeen(pair_key, seen_row_pairs) == pair_key \in seen_row_pairs

\* one (row, paired column) of the union table pass: [st, seen_row_pairs]
UnionTableCell(st, seen_row_pairs, r, row_header, s_hdr, c_s, c_i) ==
    IF UnionTableSkip(r, c_s, c_i) THEN [st |-> st, seen |-> seen_row_pairs]
    ELSE IF UnionTableSeen(<<r, c_s, c_i>>, seen_row_pairs)
    THEN [st |-> st, seen |-> seen_row_pairs]
    ELSE LET val_sample == get_effective_value(ws_sample, r, c_s)
             val_imr == get_effective_value(ws_imr, r, c_i)
             s == get_top_left_coords(ws_sample, r, c_s)
             i == get_top_left_coords(ws_imr, r, c_i)
             is_ignored == UnionTableIgnored(r, c_s, c_i)
             issues == compare_cell(Cell(ws_sample, s[1], s[2]), Cell(ws_imr, i[1], i[2]),
                                    val_sample, val_imr)
         IN  [st |-> Route(Logged(st, "table", r, c_s, <<s[1], s[2], i[1], i[2]>>, issues),
                           <<r, c_s>>, row_header, StrVal(s_hdr), issues, is_ignored),
              seen |-> seen_row_pairs \cup {<<r, c_s, c_i>>}]

RECURSIVE UnionTableRows(_, _, _, _, _, _, _, _)
\* the data loops of the union table pass, row by row over the paired columns
UnionTableRows(st, seen_row_pairs, rect, r, p, paired_cols, s_map, i_map) ==
    IF r > rect[3] THEN st
    ELSE IF p > Len(paired_cols)
    THEN UnionTableRows(st, seen_row_pairs, rect, r + 1, 1, paired_cols, s_map, i_map)
    ELSE LET row_header ==
                 IF IsNone(get_effective_value(ws_sample, r, rect[2]))
                 THEN get_effective_value(ws_imr, r, rect[2])
                 ELSE get_effective_value(ws_sample, r, rect[2])
             step == UnionTableCell(st, seen_row_pairs, r, row_header, paired_cols[p][1],
                                    DictGet(s_map, paired_cols[p][1]),
                                    DictGet(i_map, paired_cols[p][2]))
         IN  UnionTableRows(step.st, step.seen, rect, r, p + 1, paired_cols, s_map, i_map)

\* the header rows of a table: mismatching pairs, then the missing columns
HeaderRows(rect, s_map, i_map, pairing) ==
    HeaderMismatchRows(pairing.paired, 1, s_map, rect[1])
    \o MissingInReportRows(pairing.missing_in_imr, s_map, rect[1])
    \o MissingInSampleRows(pairing.missing_in_sample, i_map, rect[1])

\* WithHeaderRows that leaves issues_count alone
WithHeaderRowsUncounted(st, rect, s_map, i_map, pairing, header_rows) ==
    [st EXCEPT !.ws_out = @ \o header_rows,
               !.table_log = Append(@, [rect |-> rect, header_sample_map |-> s_map,
                                        header_imr_map |-> i_map,
                                        paired |-> pairing.paired,
                                        missing_in_imr |-> pairing.missing_in_imr,
                                        missing_in_sample |-> pairing.missing_in_sample])]

\* WithHeaderRows that sends the header rows of ignored cells to the ignored bucket
WithHeaderRowsRouted(st, rect, s_map, i_map, pairing, header_rows) ==
    LET Ignored(row) == is_cell_ignored(ws_sample, ws_imr, row.cell[1], row.cell[2])
        Kept(row) == ~Ignored(row)
    IN  [st EXCEPT !.ws_out = @ \o SelectSeq(header_rows, Kept),
                   !.issues_count = @ + Len(SelectSeq(header_rows, Kept)),
                   !.ignored_issues = @ \o SelectSeq(header_rows, Ignored),
                   !.ignored_issues_count = @ + Len(SelectSeq(header_rows, Ignored)),
                   !.table_log = Append(@, [rect |-> rect, header_sample_map |-> s_map,
                                            header_imr_map |-> i_map,
                                            paired |-> pairing.paired,
                                            missing_in_imr |-> pairing.missing_in_imr,
                                            missing_in_sample |-> pairing.missing_in_sample])]

\* the accumulators after the header rows of a table are written
WithHeaderRows(st, rect, s_map, i_map, pairing, header_rows) ==
    [st EXCEPT !.ws_out = @ \o header_rows,
               !.issues_count = @ + Len(header_rows),
               !.table_log = Append(@, [rect |-> rect, header_sample_map |-> s_map,
                                        header_imr_map |-> i_map,
                                        paired |-> pairing.paired,
                                        missing_in_imr |-> pairing.missing_in_imr,
                                        missing_in_sample |-> pairing.missing_in_sample])]

\* a table once its columns are paired: header rows, then the data rows
UnionTablePaired(st, rect, s_map, i_map, pairing) ==
    UnionTableRows(WithHeaderRows(st, rect, s_map, i_map, pairing,
                                  HeaderRows(rect, s_map, i_map, pairing)),
                   {}, rect, rect[1] + 1, 1, pairing.paired, s_map, i_map)

\* a table once its header maps are built
UnionTableMapped(st, rect, s_map, i_map) ==
    UnionTablePaired(st, rect, s_map, i_map, pair_columns_order_preserving(s_map, i_map))

\* UnionTable with the IMR header map starting at the label column
UnionTableLabelHeader(st, rect) ==
    UnionTableMapped(st, rect,
                     BuildHeaderMap(ws_sample, rect[1], rect[2] + 1, rect[4], <<>>),
                     BuildHeaderMap(ws_imr, rect[1], rect[2], rect[4], <<>>))

\* the body of the table loop for one union table
UnionTable(st, rect) ==
    UnionTableMapped(st, rect,
                     BuildHeaderMap(ws_sample, rect[1], rect[2] + 1, rect[4], <<>>),
                     BuildHeaderMap(ws_imr, rect[1], rect[2] + 1, rect[4], <<>>))

RECURSIVE UnionTables(_, _, _)
UnionTables(st, tables, k) ==
    IF k > Len(tables) THEN st
    ELSE UnionTables(UnionTable(st, tables[k]), tables, k + 1)

(***************************************************************************)
(* compare_excel_union.py: fallback sweep and key/value scan               *)
(***************************************************************************)
max_row_union == Max2(max_row(ws_sample), max_row(ws_imr))
max_col_union == Max2(max_column(ws_sample), max_column(ws_imr))

\* SeenGate that never finds the pair
SeenGateOpen(pair_key, seen) == FALSE

\* the dedup gate shared by the passes that use seen_pairs: TRUE when the pair is skipped
SeenGate(pair_key, seen) == pair_key \in seen

\* one cell of the union fallback sweep
UnionFallbackCell(st, r, c) ==
    LET this_val_s == get_effective_value(ws_sample, r, c)
        this_val_i == get_effective_value(ws_imr, r, c)
        pair_key == canonical_pair_for(r, c)
        s == get_top_left_coords(ws_sample, r, c)
        i == get_top_left_coords(ws_imr, r, c)
        is_ignored == is_cell_ignored(ws_sample, ws_imr, r, c)
        issues == compare_cell(Cell(ws_sample, s[1], s[2]), Cell(ws_imr, i[1], i[2]),
                               this_val_s, this_val_i)
    IN  IF <<r, c>> \in st.table_cells THEN st
        ELSE IF is_cell_in_ignored_ranges(r, c) THEN st
        ELSE IF IsNone(this_val_s) /\ IsNone(this_val_i) THEN st
        ELSE IF SeenGate(pair_key, st.seen_pairs) THEN st
        ELSE IF ~is_top_left_position(r, c) THEN st
        ELSE Route(Logged([st EXCEPT !.seen_pairs = @ \cup {pair_key}],
                          "fallback", r, c, pair_key, issues),
                   <<r, c>>, NoName, NoName, issues, is_ignored)

RECURSIVE UnionFallbackFrom(_, _)
\* the row-major sweep; n counts the cells already visited
UnionFallbackFrom(st, n) ==
    IF n >= max_row_union * max_col_union THEN st
    ELSE UnionFallbackFrom(UnionFallbackCell(st, (n \div max_col_union) + 1,
                                             (n % max_col_union) + 1), n + 1)

looks_like_key(text) ==
    IF ~IsStr(text) \/ text.s = EmptyText THEN FALSE
    ELSE LET stripped == Strip(text.s)
         IN  IF stripped = EmptyText THEN FALSE
             ELSE IF IsDigit(stripped) THEN FALSE
             ELSE IF StartsWith(stripped, <<"(">>) THEN FALSE
             ELSE Len(stripped) > 1

SrcSheet(source) == IF source = "sample" THEN ws_sample ELSE ws_imr
OtherSheet(source) == IF source = "sample" THEN ws_imr ELSE ws_sample

\* history: the column cc enters the scan of the key logged last
Visited(st, cc) ==
    [st EXCEPT !.key_log[Len(st.key_log)].visited = Append(@, cc)]

\* history: the cell at column cc goes to compare_cell for the key logged last
Compared(st, cc) ==
    [st EXCEPT !.key_log[Len(st.key_log)].compared = Append(@, cc)]

\* history: the cell (r, c) starts a scan as a key of the source
KeyLogged(st, source, r, c) ==
    [st EXCEPT !.key_log = Append(@, [source |-> source, r |-> r, c |-> c,
                                      visited |-> <<>>, compared |-> <<>>])]

RECURSIVE UnionKeyScan(_, _, _, _, _)
\* the rightward scan for the value of the key at (r, c)
UnionKeyScan(st, source, r, cc, key_text) ==
    IF cc > max_col_union THEN st
    ELSE IF <<r, cc>> \in st.table_cells THEN Visited(st, cc)
    ELSE IF is_cell_in_ignored_ranges(r, cc)
    THEN UnionKeyScan(Visited(st, cc), source, r, cc + 1, key_text)
    ELSE IF looks_like_key(get_effective_value(SrcSheet(source), r, cc)) THEN Visited(st, cc)
    ELSE LET value_src == get_effective_value(SrcSheet(source), r, cc)
             value_other == get_effective_value(OtherSheet(source), r, cc)
             pair_key == canonical_pair_for(r, cc)
             s == get_top_left_coords(ws_sample, r, cc)
             i == get_top_left_coords(ws_imr, r, cc)
             is_ignored == is_cell_ignored(ws_sample, ws_imr, r, cc)
             val_sample == IF source = "sample" THEN value_src ELSE value_other
             val_imr == IF source = "sample" THEN value_other ELSE value_src
             issues == compare_cell(Cell(ws_sample, s[1], s[2]), Cell(ws_imr, i[1], i[2]),
                                    val_sample, val_imr)
             seen == Visited(st, cc)
             claimed == [seen EXCEPT !.seen_pairs = @ \cup {pair_key}]
         IN  IF SeenGate(pair_key, st.seen_pairs)
             THEN UnionKeyScan(seen, source, r, cc + 1, key_text)
             ELSE IF ~is_top_left_position(r, cc)
             THEN UnionKeyScan(seen, source, r, cc + 1, key_text)
             ELSE IF IsNone(value_src) /\ IsNone(value_other)
             THEN UnionKeyScan(claimed, source, r, cc + 1, key_text)
             ELSE LET routed == Route(Logged(Compared(claimed, cc), "keyvalue", r, cc,
                                             pair_key, issues),
                                      <<r, cc>>, key_text, StrVal(safe_str(val_sample)),
                                      issues, is_ignored)
                  IN  [routed EXCEPT !.processed_cells = @ \cup {<<r, cc>>}]

\* one cell of the key/value scan of one source
UnionKeyCell(st, source, r, c) ==
    LET key_text == get_effective_value(SrcSheet(source), r, c)
    IN  IF <<r, c>> \in st.table_cells \/ <<r, c>> \in st.processed_cells THEN st
        ELSE IF ~looks_like_key(key_text) THEN st
        ELSE [UnionKeyScan(KeyLogged(st, source, r, c), source, r, c + 1, key_text)
                 EXCEPT !.processed_cells = @ \cup {<<r, c>>}]

RECURSIVE UnionKeyFrom(_, _, _)
UnionKeyFrom(st, source, n) ==
    IF n >= max_row_union * max_col_union THEN st
    ELSE UnionKeyFrom(UnionKeyCell(st, source, (n \div max_col_union) + 1,
                                   (n % max_col_union) + 1), source, n + 1)

\* "Scan twice: once using sample keys, once using IMR keys"
UnionKeyValue(st) == UnionKeyFrom(UnionKeyFrom(st, "sample", 0), "imr", 0)

(***************************************************************************)
(* compare_excel_fullsheet_minimal.py: the three passes                    *)
(***************************************************************************)
\* "Only evaluate the top-left of at least one merged region": TRUE when skipped
NotTopLeft(r, c, s, i) == (r # s[1] \/ c # s[2]) /\ (r # i[1] \/ c # i[2])

\* rows of the minimal table pass: the column name depends on the issue type
MinimalTableRoute(st, coord, row_header, col_header, cell_sample_val, issues, is_ignored) ==
    LET rows == [k \in 1..Len(issues) |->
                    [cell |-> coord, name |-> row_header,
                     column |-> IF issues[k].type = "Value Mismatch"
                                THEN col_header
                                ELSE StrVal(safe_str(cell_sample_val)),
                     type |-> issues[k].type, sample |-> issues[k].sample,
                     generated |-> issues[k].generated]]
    IN  IF Len(issues) = 0 THEN st
        ELSE IF is_ignored
        THEN [st EXCEPT !.ignored_issues = @ \o rows,
                        !.ignored_issues_count = @ + Len(rows)]
        ELSE [ensure_ws_out(st) EXCEPT !.ws_out = @ \o rows,
                                       !.issues_count = @ + Len(rows)]

\* one data cell of the minimal table pass: [st, done], done = processed_table_cells
MinimalTableCell(st, done, rect, r, c) ==
    LET row_header == IF IsNone(get_effective_value(ws_sample, r, rect[2]))
                      THEN get_effective_value(ws_imr, r, rect[2])
                      ELSE get_effective_value(ws_sample, r, rect[2])
        col_header == IF IsNone(get_effective_value(ws_sample, rect[1], c))
                      THEN get_effective_value(ws_imr, rect[1], c)
                      ELSE get_effective_value(ws_sample, rect[1], c)
        s == get_top_left_coords(ws_sample, r, c)
        i == get_top_left_coords(ws_imr, r, c)
        pair_key == <<s[1], s[2], i[1], i[2]>>
        cell_sample_val == get_effective_value(ws_sample, r, c)
        cell_imr_val == get_effective_value(ws_imr, r, c)
        is_ignored == is_cell_in_ignored_range(ws_sample, r, c)
        issues == compare_cell(Cell(ws_sample, s[1], s[2]), Cell(ws_imr, i[1], i[2]),
                               cell_sample_val, cell_imr_val)
        marked == done \cup {<<r, c>>}
    IN  IF is_cell_in_ignored_ranges(r, c) THEN [st |-> st, done |-> done]
        ELSE IF <<r, c>> \in done THEN [st |-> st, done |-> done]
        ELSE IF SeenGate(pair_key, st.seen_pairs) THEN [st |-> st, done |-> marked]
        ELSE IF NotTopLeft(r, c, s, i) THEN [st |-> st, done |-> marked]
        ELSE [st |-> MinimalTableRoute(
                         Logged([st EXCEPT !.seen_pairs = @ \cup {pair_key}],
                                "table", r, c, pair_key, issues),
                         s, row_header, col_header, cell_sample_val, issues, is_ignored),
              done |-> marked]

RECURSIVE MinimalTableRows(_, _, _, _, _)
MinimalTableRows(st, done, rect, r, c) ==
    IF r > rect[3] THEN [st |-> st, done |-> done]
    ELSE IF c > rect[4] THEN MinimalTableRows(st, done, rect, r + 1, rect[2] + 1)
    ELSE LET step == MinimalTableCell(st, done, rect, r, c)
         IN  MinimalTableRows(step.st, step.done, rect, r, c + 1)

RECURSIVE MinimalTables(_, _, _, _)
\* the table loop over table_ranges_sample + table_ranges_imr
MinimalTables(st, done, tables, k) ==
    IF k > Len(tables) THEN st
    ELSE LET marked == [st EXCEPT !.table_cells = @ \cup RectCells(tables[k])]
             step == MinimalTableRows(marked, done, tables[k], tables[k][1] + 1,
                                      tables[k][2] + 1)
         IN  MinimalTables(step.st, step.done, tables, k + 1)

RECURSIVE MinimalKeyScan(_, _, _, _)
\* the rightward scan for the value of the key at (r, c)
MinimalKeyScan(st, r, cc, key) ==
    IF cc > max_col_union THEN st
    ELSE IF <<r, cc>> \in st.table_cells THEN st
    ELSE IF is_cell_in_ignored_ranges(r, cc) THEN MinimalKeyScan(st, r, cc + 1, key)
    ELSE LET value_sample == get_effective_value(ws_sample, r, cc)
             value_imr == get_effective_value(ws_imr, r, cc)
             s == get_top_left_coords(ws_sample, r, cc)
             i == get_top_left_coords(ws_imr, r, cc)
             pair_key == <<s[1], s[2], i[1], i[2]>>
             is_ignored == is_cell_in_ignored_range(ws_sample, r, cc)
             issues == compare_cell(Cell(ws_sample, s[1], s[2]), Cell(ws_imr, i[1], i[2]),
                                    value_sample, value_imr)
         IN  IF IsNone(value_sample) /\ IsNone(value_imr)
             THEN MinimalKeyScan(st, r, cc + 1, key)
             ELSE IF SeenGate(pair_key, st.seen_pairs)
             THEN MinimalKeyScan(st, r, cc + 1, key)
             ELSE IF NotTopLeft(r, cc, s, i) THEN MinimalKeyScan(st, r, cc + 1, key)
             ELSE LET routed ==
                          Route(Logged([st EXCEPT !.seen_pairs = @ \cup {pair_key}],
                                       "keyvalue", r, cc, pair_key, issues),
                                s, StrVal(key), StrVal(safe_str(value_sample)), issues,
                                is_ignored)
                  IN  [routed EXCEPT !.processed_cells = @ \cup {<<r, cc>>}]

\* one cell of the minimal key/value scan
MinimalKeyCell(st, r, c) ==
    LET val_sample == get_effective_value(ws_sample, r, c)
    IN  IF <<r, c>> \in st.table_cells \/ <<r, c>> \in st.processed_cells THEN st
        ELSE IF is_cell_in_ignored_ranges(r, c) THEN st
        ELSE IF ~looks_like_key(val_sample) THEN st
        ELSE [MinimalKeyScan(st, r, c + 1, Strip(val_sample.s))
                 EXCEPT !.processed_cells = @ \cup {<<r, c>>}]

RECURSIVE MinimalKeyFrom(_, _)
MinimalKeyFrom(st, n) ==
    IF n >= max_row_union * max_col_union THEN st
    ELSE MinimalKeyFrom(MinimalKeyCell(st, (n \div max_col_union) + 1,
                                       (n % max_col_union) + 1), n + 1)

\* one cell of the minimal fallback sweep
MinimalFallbackCell(st, r, c) ==
    LET s == get_top_left_coords(ws_sample, r, c)
        i == get_top_left_coords(ws_imr, r, c)
        pair_key == <<s[1], s[2], i[1], i[2]>>
        val_sample == get_effective_value(ws_sample, r, c)
        val_imr == get_effective_value(ws_imr, r, c)
        is_ignored == is_cell_in_ignored_range(ws_sample, r, c)
        issues == compare_cell(Cell(ws_sample, s[1], s[2]), Cell(ws_imr, i[1], i[2]),
                               val_sample, val_imr)
        claimed == [st EXCEPT !.seen_pairs = @ \cup {pair_key}]
    IN  IF <<r, c>> \in st.table_cells \/ <<r, c>> \in st.processed_cells THEN st
        ELSE IF is_cell_in_ignored_ranges(r, c) THEN st
        ELSE IF SeenGate(pair_key, st.seen_pairs) THEN st
        ELSE IF NotTopLeft(r, c, s, i) THEN st
        ELSE IF safe_str(val_sample) = safe_str(val_imr) THEN claimed
        ELSE Route(Logged(claimed, "fallback", r, c, pair_key, issues),
                   <<r, c>>, NoName, NoName, issues, is_ignored)

RECURSIVE MinimalFallbackFrom(_, _)
MinimalFallbackFrom(st, n) ==
    IF n >= max_row_union * max_col_union THEN st
    ELSE MinimalFallbackFrom(MinimalFallbackCell(st, (n \div max_col_union) + 1,
                                                 (n % max_col_union) + 1), n + 1)

(***************************************************************************)
(* The main loop, one action per stage of the loop body                    *)
(***************************************************************************)
SummaryRow(name, missing, count, ignored_count) ==
    [name |-> name, missing |-> missing, issues |-> count, ignored |-> ignored_count]

\* MissingSheet that also creates a report sheet for the missing sheet
MissingSheetWithReport(note) ==
    /\ summary_ws' = Append(summary_ws, SummaryRow(sheet_name, note, 0, 0))
    /\ sheet_idx' = sheet_idx + 1
    /\ wb_output' = Append(wb_output, sheet_name)
    /\ UNCHANGED <<pc, ws_out, ignored_issues, seen_pairs, processed_cells,
                   union_tables, table_cells, compare_log, key_log, table_log>>

\* a sheet missing on one side: its summary row, then "continue"
MissingSheet(note) ==
    /\ summary_ws' = Append(summary_ws, SummaryRow(sheet_name, note, 0, 0))
    /\ sheet_idx' = sheet_idx + 1
    /\ UNCHANGED <<pc, ws_out, ignored_issues, seen_pairs, processed_cells,
                   union_tables, table_cells, compare_log, key_log, table_log, wb_output>>

\* top of the for loop: a sheet missing on one side only gets a summary row
BeginSheet ==
    /\ pc = "loop"
    /\ sheet_idx <= Len(ordered_sheetnames)
    /\ issues_count' = 0
    /\ ignored_issues_count' = 0
    /\ IF ~InSeq(wb_sample.sheetnames, sheet_name)
       THEN MissingSheet("Missing In Sample")
       ELSE IF ~InSeq(wb_imr.sheetnames, sheet_name)
       THEN MissingSheet("Missing In IMR_Report")
       ELSE /\ pc' = "detect"
            /\ ws_out' = <<>>
            /\ ignored_issues' = <<>>
            /\ seen_pairs' = {}
            /\ processed_cells' = {}
            /\ union_tables' = <<>>
            /\ table_cells' = {}
            /\ compare_log' = <<>>
            /\ key_log' = <<>>
            /\ table_log' = <<>>
            /\ wb_output' = IF script = "union" THEN Append(wb_output, sheet_name)
                            ELSE wb_output
            /\ UNCHANGED <<sheet_idx, summary_ws>>
    /\ UNCHANGED inputs

RECURSIVE CellsOf(_, _)
CellsOf(tables, k) ==
    IF k > Len(tables) THEN {} ELSE RectCells(tables[k]) \cup CellsOf(tables, k + 1)

\* find_bordered_tables on both sheets; the union script merges the rectangles
DetectTables ==
    /\ pc = "detect"
    /\ LET tables_sample == find_bordered_tables(ws_sample)
           tables_imr == find_bordered_tables(ws_imr)
       IN  IF script = "union"
           THEN /\ union_tables' = merge_rectangles(tables_sample \o tables_imr)
                /\ table_cells' = CellsOf(merge_rectangles(tables_sample \o tables_imr), 1)
           ELSE /\ union_tables' = tables_sample \o tables_imr
                /\ table_cells' = {}
    /\ pc' = "table"
    /\ UNCHANGED <<inputs, sheet_idx, issues_count, ignored_issues_count, ws_out,
                   ignored_issues, seen_pairs, processed_cells, compare_log, key_log, table_log,
                   wb_output, summary_ws>>

\* the accumulators after a pass
Store(st) ==
    /\ ws_out' = st.ws_out
    /\ issues_count' = st.issues_count
    /\ ignored_issues' = st.ignored_issues
    /\ ignored_issues_count' = st.ignored_issues_count
    /\ seen_pairs' = st.seen_pairs
    /\ processed_cells' = st.processed_cells
    /\ compare_log' = st.compare_log
    /\ key_log' = st.key_log
    /\ table_log' = st.table_log
    /\ table_cells' = st.table_cells
    /\ wb_output' = st.wb_output

TablePass ==
    /\ pc = "table"
    /\ IF script = "union"
       THEN Store(UnionTables(Acc, union_tables, 1)) /\ pc' = "fallback"
       ELSE Store(MinimalTables(Acc, {}, union_tables, 1)) /\ pc' = "keyvalue"
    /\ UNCHANGED <<inputs, sheet_idx, union_tables, summary_ws>>

\* union: runs after the table pass; minimal: runs after the key/value pass
FallbackPass ==
    /\ pc = "fallback"
    /\ IF script = "union"
       THEN Store(UnionFallbackFrom(Acc, 0)) /\ pc' = "keyvalue"
       ELSE Store(MinimalFallbackFrom(Acc, 0)) /\ pc' = "summary"
    /\ UNCHANGED <<inputs, sheet_idx, union_tables, summary_ws>>

\* union: runs after the fallback sweep; minimal: runs after the table pass
KeyValuePass ==
    /\ pc = "keyvalue"
    /\ IF script = "union"
       THEN Store(UnionKeyValue(Acc)) /\ pc' = "summary"
       ELSE Store(MinimalKeyFrom(Acc, 0)) /\ pc' = "fallback"
    /\ UNCHANGED <<inputs, sheet_idx, union_tables, summary_ws>>

\* the ignored section of the report sheet and the summary row of the sheet
WriteSummary ==
    /\ pc = "summary"
    /\ wb_output' = IF Len(ignored_issues) > 0 THEN ensure_ws_out(Acc).wb_output
                    ELSE wb_output
    /\ summary_ws' = Append(summary_ws,
                            SummaryRow(sheet_name, "", issues_count, ignored_issues_count))
    /\ sheet_idx' = sheet_idx + 1
    /\ pc' = "loop"
    /\ UNCHANGED <<inputs, issues_count, ignored_issues_count, ws_out, ignored_issues,
                   seen_pairs, processed_cells, union_tables, table_cells, compare_log, key_log,
                   table_log>>

\* the loop is over: the report is saved
Finish ==
    /\ pc = "loop"
    /\ sheet_idx > Len(ordered_sheetnames)
    /\ pc' = "done"
    /\ UNCHANGED <<inputs, sheet_idx, issues_count, ignored_issues_count, ws_out,
                   ignored_issues, seen_pairs, processed_cells, union_tables, table_cells,
                   compare_log, key_log, table_log, wb_output, summary_ws>>

Next ==
    \/ BeginSheet
    \/ DetectTables
    \/ TablePass
    \/ FallbackPass
    \/ KeyValuePass
    \/ WriteSummary
    \/ Finish

(***************************************************************************)
(* Workbooks the runs start from                                           *)
(***************************************************************************)
\* the state of the script before the main loop
Start ==
    /\ sheet_idx = 1
    /\ pc = "loop"
    /\ issues_count = 0
    /\ ignored_issues_count = 0
    /\ ws_out = <<>>
    /\ ignored_issues = <<>>
    /\ seen_pairs = {}
    /\ processed_cells = {}
    /\ union_tables = <<>>
    /\ table_cells = {}
    /\ compare_log = <<>>
    /\ key_log = <<>>
    /\ table_log = <<>>
    /\ wb_output = <<>>
    /\ summary_ws = <<>>

\* a sheet from its bordered cells, its values, its filled cells and its merged ranges;
\* a merged range keeps the value and the fill of its top-left cell only
MakeSheet(bordered, vals, fills, merged) ==
    LET covered == {p \in Coords : \E k \in 1..Len(merged) :
                       /\ p \in RectCells(merged[k])
                       /\ p # <<merged[k][1], merged[k][2]>>}
        dom == bordered \cup (DOMAIN vals \ covered) \cup (DOMAIN fills \ covered)
    IN  [cells |-> [p \in dom |->
                      [DefaultCell EXCEPT
                          !.value = IF p \in DOMAIN vals /\ p \notin covered
                                    THEN vals[p] ELSE None,
                          !.fill = IF p \in DOMAIN fills /\ p \notin covered
                                   THEN [start_color |-> fills[p]] ELSE @,
                          !.border = IF p \in bordered THEN ThinBorder ELSE NoBorder]],
         merged |-> merged]

NoCells == [p \in {} |-> None]

\* a workbook with the single sheet "Data"
OneSheet(sheet) == [sheetnames |-> <<"Data">>, sheets |-> [n \in {"Data"} |-> sheet]]

NoConfig ==
    /\ IGNORED_COLORS = <<>>
    /\ CELLS_TO_BE_ADDED = <<>>
    /\ IGNORED_RANGES = <<>>

\* Border layouts: at most MaxBordered bordered cells over the two sheets, no values
MaxBordered == 3

RECURSIVE SubsetsUpTo(_, _)
\* the subsets of S with at most k elements
SubsetsUpTo(S, k) ==
    IF k = 0 THEN {{}}
    ELSE LET smaller == SubsetsUpTo(S, k - 1)
         IN  smaller \cup {A \cup {x} : A \in smaller, x \in S}

\* the bordered cells of both sheets, each tagged with its side
BorderSets == SubsetsUpTo({"sample", "imr"} \X Coords, MaxBordered)

InitTables ==
    /\ Start
    /\ NoConfig
    /\ script = "union"
    /\ \E B \in BorderSets :
          /\ wb_sample = OneSheet(MakeSheet({p \in Coords : <<"sample", p>> \in B},
                                            NoCells, NoCells, <<>>))
          /\ wb_imr = OneSheet(MakeSheet({p \in Coords : <<"imr", p>> \in B},
                                         NoCells, NoCells, <<>>))

SpecTables == InitTables /\ [][Next]_vars

(***************************************************************************)
(* Properties                                                              *)
(***************************************************************************)
\* a sheet present on both sides is under comparison
InSheet == pc \in {"detect", "table", "fallback", "keyvalue", "summary"}

\* the passes of the current sheet have their tables
TablesKnown == pc \in {"table", "fallback", "keyvalue", "summary"}

\* the rectangles handed to merge_rectangles: sample tables, then IMR tables
DetectedTables == find_bordered_tables(ws_sample) \o find_bordered_tables(ws_imr)

RectInside(inner, outer) ==
    /\ outer[1] <= inner[1] /\ inner[3] <= outer[3]
    /\ outer[2] <= inner[2] /\ inner[4] <= outer[4]

Abs(x) == IF x < 0 THEN -x ELSE x

\* two rectangles overlap or touch with zero gap: some cell of one is equal or adjacent
\* to some cell of the other
ZeroGap(a, b) ==
    \E p \in RectCells(a), q \in RectCells(b) : Abs(p[1] - q[1]) <= 1 /\ Abs(p[2] - q[2]) <= 1

\* at least one fully empty row and one fully empty column lie between the rectangles
RowAndColumnGap(a, b) ==
    /\ \E r \in Rows : (a[3] < r /\ r < b[1]) \/ (b[3] < r /\ r < a[1])
    /\ \E c \in Cols : (a[4] < c /\ c < b[2]) \/ (b[4] < c /\ c < a[2])

\* C8: in the union script, any two detected rectangles (sample's, then IMR's) that
\* overlap or touch with zero gap lie inside one and the same rectangle of union_tables;
\* when exactly two rectangles are detected and a fully empty row and column separate
\* them, union_tables is those two rectangles unchanged.
C8_TableUnion ==
    (script = "union" /\ TablesKnown) =>
        LET rects == DetectedTables
        IN  /\ \A a, b \in 1..Len(rects) :
                  ZeroGap(rects[a], rects[b]) =>
                      \E k \in 1..Len(union_tables) :
                          /\ RectInside(rects[a], union_tables[k])
                          /\ RectInside(rects[b], union_tables[k])
            /\ (Len(rects) = 2 /\ RowAndColumnGap(rects[1], rects[2])) =>
                   union_tables = rects

\* C8 witness: two detected rectangles that only touch were merged into one
C8_Witness ==
    /\ script = "union" /\ TablesKnown
    /\ \E a, b \in 1..Len(DetectedTables) :
          /\ a # b
          /\ ZeroGap(DetectedTables[a], DetectedTables[b])
          /\ ~rectangles_overlap_only(DetectedTables[a], DetectedTables[b])
    /\ Len(union_tables) < Len(DetectedTables)

(***************************************************************************)
(* Identical workbooks                                                     *)
(***************************************************************************)
TextName == <<"N","a","m","e">>
TextQty == <<"Q","t","y">>
TextAmount == <<"A","m","o","u","n","t">>
TextRow == <<"R","o","w">>
TextStatus == <<"S","t","a","t","u","s">>
TextNote == <<"(","x",")">>
Red == <<"F","F","F","F","0","0","0","0">>

\* a workbook with the sheets "Data" and "Notes"
TwoSheets(data, notes) ==
    [sheetnames |-> <<"Data", "Notes">>,
     sheets |-> [n \in {"Data", "Notes"} |-> IF n = "Data" THEN data ELSE notes]]

\* a table layout: header row, label column, numbers
TableValues ==
    (<<1, 1>> :> StrVal(TextName)) @@ (<<1, 2>> :> StrVal(TextQty))
    @@ (<<1, 3>> :> StrVal(TextAmount)) @@ (<<2, 1>> :> StrVal(TextRow))
    @@ (<<2, 2>> :> IntVal(5)) @@ (<<2, 3>> :> IntVal(7))
    @@ (<<3, 1>> :> StrVal(TextStatus)) @@ (<<3, 3>> :> IntVal(5))

\* a key/value layout: keys with values to their right, a digit cell, a note
KeyValues ==
    (<<1, 1>> :> StrVal(TextStatus)) @@ (<<1, 3>> :> IntVal(5))
    @@ (<<2, 1>> :> IntVal(7)) @@ (<<2, 2>> :> StrVal(TextNote))
    @@ (<<3, 2>> :> StrVal(TextName)) @@ (<<3, 3>> :> StrVal(TextQty))

TopLeftBlock == {<<1, 1>>, <<1, 2>>, <<2, 1>>, <<2, 2>>}

IdemFills == {NoCells} \cup {(<<r, 2>> :> RgbColor(Red)) : r \in Rows}

IdemMerges ==
    {<<>>, <<<<2, 2, 3, 2>>>>, <<<<1, 2, 1, 3>>>>, <<<<2, 2, 2, 3>>, <<3, 1, 3, 2>>>>}

IdemSheets ==
    {MakeSheet(b, v, f, m) : b \in {{}, TopLeftBlock, Coords}, v \in {TableValues, KeyValues},
                             f \in IdemFills, m \in IdemMerges}

IdemConfig ==
    /\ IGNORED_COLORS \in {<<>>, <<Red>>}
    /\ CELLS_TO_BE_ADDED \in {<<>>, <<RangeEntry(2, 2, 2, 2)>>}
    /\ IGNORED_RANGES \in {<<>>, <<RangeEntry(1, 1, 3, 2)>>}

InitIdem ==
    /\ Start
    /\ IdemConfig
    /\ script \in {"union", "minimal"}
    /\ \E sheet \in IdemSheets :
          wb_sample \in {OneSheet(sheet), TwoSheets(sheet, MakeSheet({}, KeyValues, NoCells, <<>>))}
    /\ wb_imr = wb_sample

SpecIdem == InitIdem /\ [][Next]_vars

\* C1: in both scripts and under every ignore configuration, when the sample and the
\* target workbook are identical, no pass of any sheet records a primary or an ignored
\* issue: the counters stay 0, the two lists stay empty, and every summary row shows
\* IssueCount 0 and IgnoredIssueCount 0.
C1_Idempotence ==
    (wb_sample = wb_imr) =>
        /\ issues_count = 0 /\ ignored_issues_count = 0
        /\ ws_out = <<>> /\ ignored_issues = <<>>
        /\ \A k \in 1..Len(summary_ws) :
              summary_ws[k].issues = 0 /\ summary_ws[k].ignored = 0

\* C1 witness: a two-sheet workbook compared with itself to the end, the last sheet
\* having gone through compare_cell, under an ignored colour and an ignored range
C1_Witness ==
    /\ wb_sample = wb_imr
    /\ pc = "done"
    /\ Len(summary_ws) = 2
    /\ Len(compare_log) > 0
    /\ IGNORED_COLORS # <<>> /\ IGNORED_RANGES # <<>>

(***************************************************************************)
(* Workbooks with merged ranges                                            *)
(***************************************************************************)
MergeChoices == {<<>>, <<<<2, 2, 3, 2>>>>, <<<<1, 1, 1, 2>>>>, <<<<2, 2, 2, 3>>>>}

\* the table layout with at most one value replaced
ChangedValues == {TableValues} \cup {[TableValues EXCEPT ![p] = IntVal(9)] : p \in DOMAIN TableValues}

InitMerge ==
    /\ Start
    /\ NoConfig
    /\ script \in {"union", "minimal"}
    /\ \E b \in {{}, Coords}, v \in ChangedValues, ms \in MergeChoices, mi \in MergeChoices :
          /\ wb_sample = OneSheet(MakeSheet(b, TableValues, NoCells, ms))
          /\ wb_imr = OneSheet(MakeSheet(b, v, NoCells, mi))

SpecMerge == InitMerge /\ [][Next]_vars

\* no canonical pair appears twice in the compare_cell history of the sheet
ComparedOnce ==
    \A a, b \in 1..Len(compare_log) :
        a # b => compare_log[a].pair # compare_log[b].pair

\* the raw coordinates inside rect that issue records of the sheet are reported under
ReportedIn(rect) ==
    {p \in RectCells(rect) : \/ \E k \in 1..Len(ws_out) : ws_out[k].cell = p
                             \/ \E k \in 1..Len(ignored_issues) : ignored_issues[k].cell = p}

\* C2: in the union script, within one sheet and over the three passes together,
\* compare_cell runs at most once per canonical pair, and a range merged identically on
\* both sides has issue records under at most one of the raw coordinates it covers.
C2_UnionDedup ==
    (script = "union" /\ InSheet) =>
        /\ ComparedOnce
        /\ \A k \in 1..Len(ws_sample.merged) :
              InSeq(ws_imr.merged, ws_sample.merged[k]) =>
                  Cardinality(ReportedIn(ws_sample.merged[k])) <= 1

\* C3: in the minimal script, within one sheet and over the table pass, the key/value
\* pass and the fallback pass together, compare_cell runs at most once per canonical pair.
C3_MinimalDedup == (script = "minimal") => ComparedOnce

\* C3 witness: both sheets carry a merged range, the table pass and a later pass have
\* both compared cells, and a claimed pair covers a raw coordinate other than the one it
\* was compared at
C3_Witness ==
    /\ script = "minimal"
    /\ pc = "summary"
    /\ ws_sample.merged # <<>> /\ ws_imr.merged # <<>>
    /\ \E a \in 1..Len(compare_log) :
          \E p \in Coords :
              /\ p # <<compare_log[a].r, compare_log[a].c>>
              /\ canonical_pair_for(p[1], p[2]) = compare_log[a].pair
    /\ Len(compare_log) >= 2

(***************************************************************************)
(* Workbooks under force-include ranges, ignored ranges and ignored colours*)
(***************************************************************************)
\* the table layout with the Qty and Amount columns swapped
SwappedValues ==
    (<<1, 1>> :> StrVal(TextName)) @@ (<<1, 2>> :> StrVal(TextAmount))
    @@ (<<1, 3>> :> StrVal(TextQty)) @@ (<<2, 1>> :> StrVal(TextRow))
    @@ (<<2, 2>> :> IntVal(7)) @@ (<<2, 3>> :> IntVal(5))
    @@ (<<3, 1>> :> StrVal(TextStatus)) @@ (<<3, 2>> :> IntVal(5))

\* a layout with at most one value of row 2 replaced
RowTwoChanged(v) == {v} \cup {(<<2, c>> :> IntVal(9)) @@ v : c \in Cols}

\* at most one red cell, in row 2
RowTwoFills == {NoCells, (<<2, 2>> :> RgbColor(Red)), (<<2, 3>> :> RgbColor(Red))}

ForceConfig ==
    /\ IGNORED_COLORS \in {<<>>, <<Red>>}
    /\ CELLS_TO_BE_ADDED \in {<<>>, <<RangeEntry(2, 2, 2, 2)>>, <<RangeEntry(2, 2, 2, 3)>>}
    /\ IGNORED_RANGES \in {<<>>, <<RangeEntry(2, 2, 2, 2)>>, <<RangeEntry(2, 3, 2, 3)>>}

InitForce ==
    /\ Start
    /\ ForceConfig
    /\ script \in {"union", "minimal"}
    /\ \E b \in {{}, Coords}, layout \in {TableValues, SwappedValues},
          fs \in RowTwoFills, fi \in RowTwoFills :
          /\ fs = NoCells \/ fi = NoCells
          /\ wb_sample = OneSheet(MakeSheet(b, TableValues, fs, <<>>))
          /\ \E v \in RowTwoChanged(layout) : wb_imr = OneSheet(MakeSheet(b, v, fi, <<>>))

SpecForce == InitForce /\ [][Next]_vars

\* C4: in the union script, with no ignored range configured, an issue record whose
\* reported coordinate lies in a force-include range is never in the ignored bucket,
\* whatever the fill colours of the cells and whether or not the paired columns have
\* the same index on both sides.
C4_ForceBeatsColor ==
    (script = "union" /\ IGNORED_RANGES = <<>>) =>
        \A k \in 1..Len(ignored_issues) :
            ~is_cell_in_added_ranges(ignored_issues[k].cell[1], ignored_issues[k].cell[2])

\* the sample cell and the IMR cell at one coordinate mismatch
MismatchAt(p) ==
    compare_cell(Cell(ws_sample, p[1], p[2]), Cell(ws_imr, p[1], p[2]),
                 get_effective_value(ws_sample, p[1], p[2]),
                 get_effective_value(ws_imr, p[1], p[2])) # <<>>

\* p is a data cell of a paired column that sits at the same index on both sides
TableReaches(p) ==
    \E t \in 1..Len(table_log) :
        /\ table_log[t].rect[1] < p[1] /\ p[1] <= table_log[t].rect[3]
        /\ \E q \in 1..Len(table_log[t].paired) :
              /\ DictGet(table_log[t].header_sample_map, table_log[t].paired[q][1]) = p[2]
              /\ DictGet(table_log[t].header_imr_map, table_log[t].paired[q][2]) = p[2]

\* p lies outside the tables and holds a value on at least one side
SweepReaches(p) ==
    /\ p \notin table_cells
    /\ ~(IsNone(get_effective_value(ws_sample, p[1], p[2]))
         /\ IsNone(get_effective_value(ws_imr, p[1], p[2])))

\* C5: in the union script, once the three passes are over, a coordinate that lies in a
\* force-include range and in an ignored range, whose cells mismatch and which a pass
\* reaches, has at least one issue record in the primary list.
C5_ForceBeatsRange ==
    (script = "union" /\ pc = "summary") =>
        \A p \in Coords :
            (/\ is_cell_in_added_ranges(p[1], p[2])
             /\ is_cell_in_ignored_ranges(p[1], p[2])
             /\ MismatchAt(p)
             /\ (TableReaches(p) \/ SweepReaches(p)))
            => \E k \in 1..Len(ws_out) : ws_out[k].cell = p

(***************************************************************************)
(* One bordered table whose header texts vary                              *)
(***************************************************************************)
TextQtyPadded == <<" ","Q","t","y"," ">>
TextQtyLower == <<"q","t","y">>
TextQtys == <<"Q","t","y","s">>
TextAmountLower == <<"a","m","o","u","n","t">>

HeaderChoices ==
    {None, StrVal(TextQty), StrVal(TextQtyPadded), StrVal(TextQtyLower), StrVal(TextQtys),
     StrVal(TextAmount), StrVal(TextAmountLower)}

\* the table layout with the headers of columns 2 and 3 replaced
WithHeaders(h2, h3) == (<<1, 2>> :> h2) @@ (<<1, 3>> :> h3) @@ TableValues

InitHeader ==
    /\ Start
    /\ NoConfig
    /\ script = "union"
    /\ \E s2 \in HeaderChoices, s3 \in HeaderChoices, i2 \in HeaderChoices, i3 \in HeaderChoices :
          /\ wb_sample = OneSheet(MakeSheet(Coords, WithHeaders(s2, s3), NoCells, <<>>))
          /\ wb_imr = OneSheet(MakeSheet(Coords, WithHeaders(i2, i3), NoCells, <<>>))

SpecHeader == InitHeader /\ [][Next]_vars

\* the header columns of a table: all but the label column
HeaderCols(rect) == (rect[2] + 1)..rect[4]

\* a header cell holding non-blank text
HasHeaderText(v) == IsStr(v) /\ Strip(v.s) # EmptyText

\* the texts are equal once stripped and lower-cased
NormalizedEqual(a, b) ==
    HasHeaderText(a) /\ HasHeaderText(b) /\ Lower(Strip(a.s)) = Lower(Strip(b.s))

\* the header records of the table at header row r that mention the text x
HeaderRecords(r, x) ==
    {k \in 1..Len(ws_out) :
        /\ ws_out[k].cell[1] = r
        /\ ws_out[k].type \in {"Value Mismatch", "Missing in report", "Missing in sample"}
        /\ (ws_out[k].column = StrVal(x) \/ ws_out[k].sample = x \/ ws_out[k].generated = x)}

\* similarity above the pairing threshold
Similar(a, b) == ScoreGt(header_similarity(a, b), similarity_threshold)

\* C6 as stated: in the union table pass, a sample header and a target header that are
\* equal once stripped and lower-cased are paired with each other and no header record
\* (Value Mismatch, Missing in report, Missing in sample) mentions them.
C6_NormalizedHeadersSilent ==
    (script = "union" /\ InSheet) =>
        \A t \in 1..Len(table_log) :
            \A cs, ci \in HeaderCols(table_log[t].rect) :
                LET hs == get_effective_value(ws_sample, table_log[t].rect[1], cs)
                    hi == get_effective_value(ws_imr, table_log[t].rect[1], ci)
                IN  NormalizedEqual(hs, hi) =>
                        /\ InSeq(table_log[t].paired, <<Strip(hs.s), Strip(hi.s)>>)
                        /\ HeaderRecords(table_log[t].rect[1], Strip(hs.s)) = {}
                        /\ HeaderRecords(table_log[t].rect[1], Strip(hi.s)) = {}

\* C6 (amended): headers that differ only by surrounding whitespace are paired with each
\* other and no header record mentions them; headers that differ also by letter case,
\* when no other sample header is similar to the target header and no other target
\* header is similar to the sample header, are paired with each other and get exactly
\* one header record, a Value Mismatch named "Header" with the two texts.
C6_HeaderPairing ==
    (script = "union" /\ InSheet) =>
        \A t \in 1..Len(table_log) :
            \A cs, ci \in HeaderCols(table_log[t].rect) :
                LET hs == get_effective_value(ws_sample, table_log[t].rect[1], cs)
                    hi == get_effective_value(ws_imr, table_log[t].rect[1], ci)
                    s == Strip(hs.s)
                    i == Strip(hi.s)
                    s_map == table_log[t].header_sample_map
                    i_map == table_log[t].header_imr_map
                    alone == /\ \A k \in 1..Len(s_map) : s_map[k][1] # s => ~Similar(s_map[k][1], i)
                             /\ \A k \in 1..Len(i_map) : i_map[k][1] # i => ~Similar(s, i_map[k][1])
                IN  NormalizedEqual(hs, hi) =>
                        /\ (s = i) =>
                              /\ InSeq(table_log[t].paired, <<s, i>>)
                              /\ HeaderRecords(table_log[t].rect[1], s) = {}
                        /\ (s # i /\ alone) =>
                              /\ InSeq(table_log[t].paired, <<s, i>>)
                              /\ HeaderRecords(table_log[t].rect[1], s)
                                    = HeaderRecords(table_log[t].rect[1], i)
                              /\ \E k \in 1..Len(ws_out) :
                                    /\ HeaderRecords(table_log[t].rect[1], s) = {k}
                                    /\ ws_out[k] = HeaderRow(<<table_log[t].rect[1], DictGet(s_map, s)>>,
                                                             StrVal(HeaderText), StrVal(s),
                                                             "Value Mismatch", s, i)

\* C6 witness: one table pairs two headers that differ by whitespace only and two
\* headers that differ by letter case only
C6_Witness ==
    /\ script = "union" /\ pc = "summary" /\ Len(table_log) = 1
    /\ LET hs2 == get_effective_value(ws_sample, 1, 2)
           hi2 == get_effective_value(ws_imr, 1, 2)
           hs3 == get_effective_value(ws_sample, 1, 3)
           hi3 == get_effective_value(ws_imr, 1, 3)
       IN  /\ NormalizedEqual(hs2, hi2) /\ hs2 # hi2 /\ Strip(hs2.s) = Strip(hi2.s)
           /\ NormalizedEqual(hs3, hi3) /\ Strip(hs3.s) # Strip(hi3.s)
           /\ Len(table_log[1].paired) = 2
           /\ issues_count = 1

\* the records of the primary list with the given type and header text as column name
RecordsOf(type, x) ==
    {k \in 1..Len(ws_out) : ws_out[k].type = type /\ ws_out[k].column = StrVal(x)}

\* the target headers already used when the turn of the a-th sample header comes in the
\* fuzzy pass: those of the exact matches and of the fuzzy pairs of earlier sample headers
UsedAtTurn(s_map, i_map, a) ==
    FuzzyPass(SubSeq(DictKeys(s_map), 1, a - 1), DictKeys(i_map), 1,
              ExactPass(DictKeys(s_map), i_map, 1, [paired |-> <<>>, used_imr |-> {}])).used_imr

\* C7: in the union table pass, a sample header s and a target header i that have no
\* exact match, with s not similar (above 0.72) to any target header still unused at its
\* turn and i not similar to any sample header left unpaired by the exact matches, stay
\* unpaired; the primary list holds exactly one Missing in report record for s, at the
\* header cell of s, and exactly one Missing in sample record for i, at the header cell
\* of i.
C7_DissimilarUnpaired ==
    (script = "union" /\ InSheet) =>
        \A t \in 1..Len(table_log) :
            LET s_map == table_log[t].header_sample_map
                i_map == table_log[t].header_imr_map
                row == table_log[t].rect[1]
            IN  \A a \in 1..Len(s_map), b \in 1..Len(i_map) :
                    LET s == s_map[a][1]
                        i == i_map[b][1]
                    IN  (/\ ~DictHas(i_map, s)
                         /\ ~DictHas(s_map, i)
                         /\ \A k \in 1..Len(i_map) :
                               i_map[k][1] \notin UsedAtTurn(s_map, i_map, a)
                               => ~Similar(s, i_map[k][1])
                         /\ \A k \in 1..Len(s_map) :
                               ~DictHas(i_map, s_map[k][1]) => ~Similar(s_map[k][1], i))
                        =>
                        /\ \A p \in 1..Len(table_log[t].paired) :
                              table_log[t].paired[p][1] # s /\ table_log[t].paired[p][2] # i
                        /\ \E k \in 1..Len(ws_out) :
                              /\ RecordsOf("Missing in report", s) = {k}
                              /\ ws_out[k] = HeaderRow(<<row, s_map[a][2]>>, NoName, StrVal(s),
                                                       "Missing in report", s, EmptyText)
                        /\ \E k \in 1..Len(ws_out) :
                              /\ RecordsOf("Missing in sample", i) = {k}
                              /\ ws_out[k] = HeaderRow(<<row, i_map[b][2]>>, NoName, StrVal(i),
                                                       "Missing in sample", EmptyText, i)

\* C7 witness: the table pass has left Qty of the sample and Amount of the target
\* unpaired while another column was paired
C7_Witness ==
    /\ script = "union" /\ pc = "fallback" /\ Len(table_log) = 1
    /\ table_log[1].missing_in_imr = <<TextQty>>
    /\ table_log[1].missing_in_sample = <<TextAmount>>
    /\ Len(table_log[1].paired) = 1
    /\ issues_count >= 2

\* the sheet "Data" of a workbook
DataSheet(wb) == wb.sheets["Data"]

\* the sheet is one fully bordered table on both sides
OneBorderedTable ==
    \A p \in Coords : /\ has_border(Cell(DataSheet(wb_sample), p[1], p[2]))
                      /\ has_border(Cell(DataSheet(wb_imr), p[1], p[2]))

\* the header text of column c on the two sides
SampleHeader(c) == Cell(DataSheet(wb_sample), 1, c).value
ImrHeader(c) == Cell(DataSheet(wb_imr), 1, c).value

\* exactly the header cell of column c differs between the sheets, by its value
OneHeaderDiffers(c) ==
    /\ SampleHeader(c) # ImrHeader(c)
    /\ \A p \in Coords :
          p # <<1, c>> => Cell(DataSheet(wb_sample), p[1], p[2]) = Cell(DataSheet(wb_imr), p[1], p[2])
    /\ [Cell(DataSheet(wb_sample), 1, c) EXCEPT !.value = None]
          = [Cell(DataSheet(wb_imr), 1, c) EXCEPT !.value = None]
    /\ DataSheet(wb_sample).merged = DataSheet(wb_imr).merged

\* the two texts of the differing header column are non-blank and dissimilar
DissimilarTexts(c) ==
    /\ HasHeaderText(SampleHeader(c))
    /\ HasHeaderText(ImrHeader(c))
    /\ ~Similar(Strip(SampleHeader(c).s), Strip(ImrHeader(c).s))

\* the stripped header texts of a sheet are pairwise distinct
DistinctHeaders(sheet) ==
    \A c1, c2 \in HeaderCols(<<1, 1, MaxRow, MaxCol>>) :
        (c1 # c2 /\ HasHeaderText(Cell(sheet, 1, c1).value)
                 /\ HasHeaderText(Cell(sheet, 1, c2).value))
        => Strip(Cell(sheet, 1, c1).value.s) # Strip(Cell(sheet, 1, c2).value.s)

\* the issues C9 describes for the differing header column c, once the table pass is over
TwoMissingRecords(c) ==
    (pc \in {"fallback", "keyvalue", "summary"}) =>
        /\ ws_out = <<HeaderRow(<<1, c>>, NoName, StrVal(Strip(SampleHeader(c).s)),
                                "Missing in report", Strip(SampleHeader(c).s), EmptyText),
                      HeaderRow(<<1, c>>, NoName, StrVal(Strip(ImrHeader(c).s)),
                                "Missing in sample", EmptyText, Strip(ImrHeader(c).s))>>
        /\ issues_count = 2 /\ ignored_issues_count = 0
        /\ ignored_issues = <<>>
        /\ \A k \in 1..Len(compare_log) : compare_log[k].n = 0

\* the summary row of the only sheet, once written
SummaryShows(count, ignored_count) ==
    (pc \in {"loop", "done"} /\ sheet_idx > 1) =>
        summary_ws = <<SummaryRow("Data", "", count, ignored_count)>>

\* C9 as stated: in the union script, for a sheet that is one fully bordered table,
\* identical on both sides except for one non-label header whose two texts are
\* dissimilar, the run records exactly two primary issues, a Missing in report for the
\* sample header and a Missing in sample for the target header, no issue for any compared
\* cell, and the summary row shows IssueCount 2 and IgnoredIssueCount 0.
C9_OneHeaderTwoIssues ==
    (script = "union" /\ OneBorderedTable) =>
        \A c \in HeaderCols(<<1, 1, MaxRow, MaxCol>>) :
            (OneHeaderDiffers(c) /\ DissimilarTexts(c)) =>
                TwoMissingRecords(c) /\ SummaryShows(2, 0)

\* C9 (amended): the same, when in addition the stripped header texts of the table are
\* pairwise distinct on the sample side and on the target side.
C9_DistinctHeadersTwoIssues ==
    (script = "union" /\ OneBorderedTable) =>
        \A c \in HeaderCols(<<1, 1, MaxRow, MaxCol>>) :
            (/\ OneHeaderDiffers(c) /\ DissimilarTexts(c)
             /\ DistinctHeaders(DataSheet(wb_sample)) /\ DistinctHeaders(DataSheet(wb_imr))) =>
                TwoMissingRecords(c) /\ SummaryShows(2, 0)

\* C9 witness: the run of such a sheet is over, another column was paired and compared,
\* and the summary row is written
C9_Witness ==
    /\ script = "union" /\ OneBorderedTable /\ pc = "done"
    /\ \E c \in HeaderCols(<<1, 1, MaxRow, MaxCol>>) :
          /\ OneHeaderDiffers(c) /\ DissimilarTexts(c)
          /\ DistinctHeaders(DataSheet(wb_sample)) /\ DistinctHeaders(DataSheet(wb_imr))
    /\ Len(table_log) = 1 /\ Len(table_log[1].paired) = 1
    /\ Len(compare_log) > 0
    /\ Len(summary_ws) = 1

(***************************************************************************)
(* A key, a gap and a value on one row, no table                           *)
(***************************************************************************)
\* row r holds a key in column 1, gap in column 2 and value in column 3
KeyRow(r, key, gap, value) ==
    (<<r, 1>> :> key) @@ (<<r, 2>> :> gap) @@ (<<r, 3>> :> value)

InitKV ==
    /\ Start
    /\ NoConfig
    /\ script \in {"union", "minimal"}
    /\ \E r \in Rows, key \in {StrVal(TextStatus), StrVal(TextName)}, gap \in {None, IntVal(7)},
          vs \in {IntVal(5), StrVal(TextNote)}, vi \in {IntVal(5), IntVal(9), None} :
          /\ wb_sample = OneSheet(MakeSheet({}, KeyRow(r, key, gap, vs), NoCells, <<>>))
          /\ wb_imr = OneSheet(MakeSheet({}, KeyRow(r, key, gap, vi), NoCells, <<>>))

SpecKV == InitKV /\ [][Next]_vars

\* row r, outside the tables, holds at column c a key equal on both sides, then an empty
\* cell, then a cell whose value differs, with all styles identical
KeyValueScenario(r, c) ==
    /\ c + 2 <= MaxCol
    /\ \A k \in {c, c + 1, c + 2} : <<r, k>> \notin table_cells
    /\ looks_like_key(Cell(ws_sample, r, c).value)
    /\ Cell(ws_sample, r, c) = Cell(ws_imr, r, c)
    /\ IsNone(Cell(ws_sample, r, c + 1).value) /\ IsNone(Cell(ws_imr, r, c + 1).value)
    /\ Cell(ws_sample, r, c + 2).value # Cell(ws_imr, r, c + 2).value
    /\ ~looks_like_key(Cell(ws_sample, r, c + 2).value)
    /\ ~looks_like_key(Cell(ws_imr, r, c + 2).value)
    /\ \A p \in Coords : [Cell(ws_sample, p[1], p[2]) EXCEPT !.value = None]
                            = [Cell(ws_imr, p[1], p[2]) EXCEPT !.value = None]
    /\ ws_sample.merged = <<>> /\ ws_imr.merged = <<>>

\* C10: in the union script, once the passes of such a sheet are over, the run has
\* produced exactly one issue record: a Value Mismatch at the value cell, carrying the
\* sample value and the target value, whose Name field is the key text.
C10_KeyValueRecord ==
    (script = "union" /\ pc = "summary") =>
        \A r \in Rows, c \in Cols :
            KeyValueScenario(r, c) =>
                /\ ignored_issues = <<>>
                /\ Len(ws_out) = 1
                /\ ws_out[1].type = "Value Mismatch"
                /\ ws_out[1].cell = <<r, c + 2>>
                /\ ws_out[1].sample = safe_str(Cell(ws_sample, r, c + 2).value)
                /\ ws_out[1].generated = safe_str(Cell(ws_imr, r, c + 2).value)
                /\ ws_out[1].name = Cell(ws_sample, r, c).value

(***************************************************************************)
(* Coverage of the coordinates of a sheet by the three passes              *)
(***************************************************************************)
\* the effective values of the two sides differ at p, as compare_cell sees them
ValuesDiffer(p) ==
    safe_str(get_effective_value(ws_sample, p[1], p[2]))
        # safe_str(get_effective_value(ws_imr, p[1], p[2]))

\* a record of the primary list or of the ignored bucket is filed under a raw coordinate
\* of the cell pair of p
HasRecord(p) ==
    \/ \E k \in 1..Len(ws_out) :
          canonical_pair_for(ws_out[k].cell[1], ws_out[k].cell[2])
              = canonical_pair_for(p[1], p[2])
    \/ \E k \in 1..Len(ignored_issues) :
          canonical_pair_for(ignored_issues[k].cell[1], ignored_issues[k].cell[2])
              = canonical_pair_for(p[1], p[2])

\* C11: in the union script, once the three passes of a sheet present on both sides are
\* over, every coordinate that lies in no ignored range and whose effective values differ
\* between the sample and the target has at least one issue record, in the primary list
\* or in the ignored bucket, for its cell pair.
C11_NoSilentDrop ==
    (script = "union" /\ pc = "summary") =>
        \A p \in Coords :
            (~is_cell_in_ignored_ranges(p[1], p[2]) /\ ValuesDiffer(p)) => HasRecord(p)

(***************************************************************************)
(* Workbooks whose sheet lists differ                                      *)
(***************************************************************************)
SheetNames == {"Data", "Notes", "Extra"}

\* the sheet lists of a workbook: one to three names, none repeated
SheetOrders ==
    {s \in UNION {[1..n -> SheetNames] : n \in 1..Cardinality(SheetNames)} :
        \A a, b \in 1..Len(s) : a # b => s[a] # s[b]}

\* a workbook from its sheet list and the sheet of each name
Workbook(names, data, notes, extra) ==
    [sheetnames |-> names,
     sheets |-> [n \in {names[k] : k \in 1..Len(names)} |->
                    IF n = "Data" THEN data ELSE IF n = "Notes" THEN notes ELSE extra]]

\* the table layout with the Qty header in lower case and the Amount of row 2 replaced
ChangedTable == (<<1, 2>> :> StrVal(TextQtyLower)) @@ (<<2, 3>> :> IntVal(9)) @@ TableValues

\* the key/value layout with the value of the Status key and the number of row 2 replaced
ChangedKeyValues == (<<1, 3>> :> IntVal(9)) @@ (<<2, 1>> :> IntVal(9)) @@ KeyValues

InitSheets ==
    /\ Start
    /\ IGNORED_COLORS \in {<<>>, <<Red>>}
    /\ CELLS_TO_BE_ADDED = <<>>
    /\ IGNORED_RANGES = <<>>
    /\ script \in {"union", "minimal"}
    /\ \E ns \in SheetOrders :
          wb_sample = Workbook(ns, MakeSheet(Coords, TableValues, NoCells, <<>>),
                               MakeSheet({}, KeyValues, NoCells, <<>>),
                               MakeSheet({}, KeyValues, NoCells, <<>>))
    /\ \E ni \in SheetOrders, changed \in BOOLEAN :
          wb_imr = Workbook(ni,
                            MakeSheet(Coords, IF changed THEN ChangedTable ELSE TableValues,
                                      IF changed THEN (<<2, 3>> :> RgbColor(Red)) ELSE NoCells,
                                      <<>>),
                            MakeSheet({}, IF changed THEN ChangedKeyValues ELSE KeyValues,
                                      IF changed THEN (<<1, 3>> :> RgbColor(Red)) ELSE NoCells,
                                      <<>>),
                            MakeSheet({}, KeyValues, NoCells, <<>>))

SpecSheets == InitSheets /\ [][Next]_vars

\* the target sheets the sample does not have, in the target's order
TargetOnly ==
    LET NotInSample(x) == ~InSeq(wb_sample.sheetnames, x)
    IN  SelectSeq(wb_imr.sheetnames, NotInSample)

\* the sheet is present in both workbooks
OnBothSides(name) == InSeq(wb_sample.sheetnames, name) /\ InSeq(wb_imr.sheetnames, name)

\* C12: the summary holds one row per sheet processed so far; row k names the k-th sample
\* sheet while sample sheets last and the target-only sheets, in the target's order,
\* after them; the presence note of a row is non-empty exactly when its sheet is missing
\* on one side; a sheet under comparison is the one whose row comes next; and at the end
\* of the run every sheet name has its row.
C12_SheetOrder ==
    /\ Len(summary_ws) = sheet_idx - 1
    /\ \A k \in 1..Len(summary_ws) :
          /\ k <= Len(wb_sample.sheetnames) => summary_ws[k].name = wb_sample.sheetnames[k]
          /\ k > Len(wb_sample.sheetnames)
                => /\ k - Len(wb_sample.sheetnames) <= Len(TargetOnly)
                   /\ summary_ws[k].name = TargetOnly[k - Len(wb_sample.sheetnames)]
          /\ (summary_ws[k].missing # "") <=> ~OnBothSides(summary_ws[k].name)
    /\ InSheet => sheet_name = (wb_sample.sheetnames \o TargetOnly)[Len(summary_ws) + 1]
    /\ (pc = "done") => Len(summary_ws) = Len(wb_sample.sheetnames) + Len(TargetOnly)

\* C12 witness: the run is over for a sample with two sheets and a target that lists a
\* sheet of its own before a shared one; the summary has a row with a presence note
\* after a row without one
C12_Witness ==
    /\ pc = "done"
    /\ Len(wb_sample.sheetnames) = 2
    /\ Len(TargetOnly) = 1
    /\ wb_imr.sheetnames[1] = TargetOnly[1]
    /\ \E k \in 1..Len(wb_sample.sheetnames) : OnBothSides(wb_sample.sheetnames[k])
    /\ Len(summary_ws) = 3
    /\ summary_ws[3].missing # ""
    /\ \E k \in 1..2 : summary_ws[k].missing = ""

\* the summary row of every sheet of both workbooks is written
AllSheetsSummarised ==
    \A wb \in {wb_sample, wb_imr} :
        \A n \in 1..Len(wb.sheetnames) :
            \E k \in 1..Len(summary_ws) : summary_ws[k].name = wb.sheetnames[n]

\* C13: the summary row of a sheet missing in the sample reads Missing In Sample, that of
\* a sheet missing in the target reads Missing In IMR_Report, both with issue count 0
\* and ignored-issue count 0; the report workbook never holds a detail sheet for such a
\* sheet; no pass is ever positioned on such a sheet; and the run goes on to the end,
\* where every sheet of both workbooks has its summary row.
C13_MissingSheet ==
    /\ \A k \in 1..Len(summary_ws) :
          LET name == summary_ws[k].name
          IN  /\ ~InSeq(wb_sample.sheetnames, name)
                    => summary_ws[k] = SummaryRow(name, "Missing In Sample", 0, 0)
              /\ ~InSeq(wb_imr.sheetnames, name)
                    => summary_ws[k] = SummaryRow(name, "Missing In IMR_Report", 0, 0)
    /\ \A k \in 1..Len(wb_output) : OnBothSides(wb_output[k])
    /\ InSheet => OnBothSides(sheet_name)
    /\ (pc = "done") => AllSheetsSummarised

\* C13 witness: the run is over; a sheet missing in the target and a sheet missing in the
\* sample were each followed by a sheet compared on both sides with issues
C13_Witness ==
    /\ pc = "done"
    /\ \E a, b, c \in 1..Len(summary_ws) :
          /\ a < b /\ b < c
          /\ summary_ws[a].missing = "Missing In IMR_Report"
          /\ summary_ws[b].missing = ""
          /\ summary_ws[b].issues + summary_ws[b].ignored > 0
          /\ summary_ws[c].missing = "Missing In Sample"
    /\ Len(wb_output) = 1

\* the sheet whose summary row was written last
LastSheet == ordered_sheetnames[sheet_idx - 1]

\* C14: in the union script, the comparison of a sheet starts with both counters at zero
\* and both lists empty; after every pass issues_count is the number of records of the
\* sheet's primary list and ignored_issues_count the number of records of its ignored
\* bucket; and the summary row of the sheet shows exactly these two numbers.
C14_CountsMatchRecords ==
    (script = "union") =>
        /\ (pc = "detect") =>
              /\ issues_count = 0 /\ ignored_issues_count = 0
              /\ ws_out = <<>> /\ ignored_issues = <<>>
        /\ InSheet =>
              /\ issues_count = Len(ws_out)
              /\ ignored_issues_count = Len(ignored_issues)
        /\ (pc \in {"loop", "done"} /\ sheet_idx > 1 /\ OnBothSides(LastSheet)) =>
              summary_ws[sheet_idx - 1]
                  = SummaryRow(LastSheet, "", Len(ws_out), Len(ignored_issues))

\* C14 witness: the passes of a second compared sheet are over with records in its primary
\* list, a header record among them, and in its ignored bucket, after a first compared
\* sheet whose summary row shows issues and ignored issues of its own
C14_Witness ==
    /\ script = "union" /\ pc = "summary"
    /\ issues_count > 0 /\ ignored_issues_count > 0
    /\ \E k \in 1..Len(ws_out) : ws_out[k].name = StrVal(HeaderText)
    /\ \E k \in 1..Len(summary_ws) :
          /\ summary_ws[k].missing = ""
          /\ summary_ws[k].issues > 0 /\ summary_ws[k].ignored > 0

\* the passes that have called compare_cell on the sheet so far
PassesLogged == {compare_log[k].pass : k \in 1..Len(compare_log)}

\* C15: in the union script the key/value pass starts before the fallback pass has
\* compared any cell, and once the passes are over the value cell of a key, which
\* qualifies for the key/value pass and for the fallback pass, was compared by the
\* key/value pass.
C15_PassOrder ==
    (script = "union") =>
        /\ (pc = "keyvalue") => "fallback" \notin PassesLogged
        /\ (pc = "summary") =>
              \A r \in Rows, c \in Cols :
                  KeyValueScenario(r, c) =>
                      \E k \in 1..Len(compare_log) :
                          /\ compare_log[k].pass = "keyvalue"
                          /\ compare_log[k].r = r /\ compare_log[k].c = c + 2

(***************************************************************************)
(* Range lists with entries that cannot be parsed                          *)
(***************************************************************************)
MaxRanges == 2

\* the entries of a configured list: "", " ", text that is no range, and the range B2:B2
RangeEntries == {EmptyEntry, BlankEntry, BadEntry, RangeEntry(2, 2, 2, 2)}

\* the lists of at most MaxRanges entries
RangeLists == UNION {[1..n -> RangeEntries] : n \in 0..MaxRanges}

InitRanges ==
    /\ Start
    /\ IGNORED_COLORS = <<>>
    /\ CELLS_TO_BE_ADDED \in RangeLists
    /\ IGNORED_RANGES \in RangeLists
    /\ script \in {"union", "minimal"}
    /\ wb_sample = OneSheet(MakeSheet({}, KeyValues, NoCells, <<>>))
    /\ wb_imr = OneSheet(MakeSheet({}, (<<2, 2>> :> IntVal(9)) @@ KeyValues, NoCells, <<>>))

SpecRanges == InitRanges /\ [][Next]_vars

\* some entry of the list is a range that parses and covers the coordinate
CoveredByValidRange(ranges, row, col) ==
    \E k \in 1..Len(ranges) :
        /\ ranges[k].kind = "range"
        /\ ranges[k].min_row <= row /\ row <= ranges[k].max_row
        /\ ranges[k].min_col <= col /\ col <= ranges[k].max_col

\* C16: whatever entries that cannot be parsed a list holds and wherever they stand,
\* is_cell_in_added_ranges and is_cell_in_ignored_ranges answer for every coordinate
\* exactly as the valid ranges of the list say.
C16_UnparsableSkipped ==
    \A p \in Coords :
        /\ is_cell_in_added_ranges(p[1], p[2])
              <=> CoveredByValidRange(CELLS_TO_BE_ADDED, p[1], p[2])
        /\ is_cell_in_ignored_ranges(p[1], p[2])
              <=> CoveredByValidRange(IGNORED_RANGES, p[1], p[2])

\* C17: in the union script, once the three passes are over, a coordinate that lies in an
\* ignored range and in no force-include range, whose cells mismatch and which a pass
\* reaches, has its issue records in the ignored bucket and none in the primary list.
C17_IgnoredRangeRouted ==
    (script = "union" /\ pc = "summary") =>
        \A p \in Coords :
            (/\ is_cell_in_ignored_ranges(p[1], p[2])
             /\ ~is_cell_in_added_ranges(p[1], p[2])
             /\ MismatchAt(p)
             /\ (TableReaches(p) \/ SweepReaches(p)))
            => /\ \E k \in 1..Len(ignored_issues) : ignored_issues[k].cell = p
               /\ \A k \in 1..Len(ws_out) : ws_out[k].cell # p

\* the resolved (merged top-left) cell of p in the sheet has an ignored fill colour
IgnoredFill(sheet, p) ==
    LET tl == get_top_left_coords(sheet, p[1], p[2])
    IN  is_ignored_color(Cell(sheet, tl[1], tl[2]))

\* C18: in the minimal script, no record of the primary list is filed under a coordinate
\* that lies in no force-include range and in no ignored range and whose resolved cell
\* has an ignored fill colour in the sample or in the target.
C18_EitherSideColor ==
    (script = "minimal" /\ InSheet) =>
        \A k \in 1..Len(ws_out) :
            LET p == ws_out[k].cell
            IN  (/\ ~is_cell_in_added_ranges(p[1], p[2])
                 /\ ~is_cell_in_ignored_ranges(p[1], p[2]))
                => /\ ~IgnoredFill(ws_sample, p)
                   /\ ~IgnoredFill(ws_imr, p)

(***************************************************************************)
(* One cell whose value is absent on one side                              *)
(***************************************************************************)
TextNone == <<"N","o","n","e">>
TextFive == <<"5">>

\* what a cell may hold: nothing, the empty text, texts, a number
ValueChoices ==
    {None, StrVal(EmptyText), StrVal(TextNone), StrVal(TextFive), StrVal(TextStatus),
     IntVal(5)}

InitValues ==
    /\ Start
    /\ NoConfig
    /\ script \in {"union", "minimal"}
    /\ \E p \in Coords, vs \in ValueChoices, vi \in ValueChoices :
          /\ wb_sample = OneSheet(MakeSheet({}, (p :> vs), NoCells, <<>>))
          /\ wb_imr = OneSheet(MakeSheet({}, (p :> vi), NoCells, <<>>))

SpecValues == InitValues /\ [][Next]_vars

\* the issues compare_cell returns for the cell pair at p
IssuesAt(p) ==
    compare_cell(Cell(ws_sample, p[1], p[2]), Cell(ws_imr, p[1], p[2]),
                 get_effective_value(ws_sample, p[1], p[2]),
                 get_effective_value(ws_imr, p[1], p[2]))

\* C19: for every cell pair of a compared sheet where the value is absent on exactly one
\* side, whatever the other side holds, compare_cell returns a Value Mismatch issue.
C19_AbsentValueMismatch ==
    InSheet =>
        \A p \in Coords :
            (IsNone(get_effective_value(ws_sample, p[1], p[2]))
                 # IsNone(get_effective_value(ws_imr, p[1], p[2])))
            => \E k \in 1..Len(IssuesAt(p)) : IssuesAt(p)[k].type = "Value Mismatch"

\* the raw coordinate is the merged top-left of its cell in the sample or in the target
TopLeftOnASide(r, c) ==
    \/ get_top_left_coords(ws_sample, r, c) = <<r, c>>
    \/ get_top_left_coords(ws_imr, r, c) = <<r, c>>

\* C20: in the union script, every call of compare_cell of a sheet, in whichever pass,
\* was made at a raw coordinate that is the merged top-left coordinate of its cell on the
\* sample side or on the target side.
C20_TopLeftOnly ==
    (script = "union" /\ InSheet) =>
        \A k \in 1..Len(compare_log) : TopLeftOnASide(compare_log[k].r, compare_log[k].c)

(***************************************************************************)
(* Shape of the rectangles find_bordered_tables returns                    *)
(***************************************************************************)
\* the rectangles find_bordered_tables returns for a sheet, as a set
TablesOf(sheet) ==
    {find_bordered_tables(sheet)[k] : k \in 1..Len(find_bordered_tables(sheet))}

\* row r carries a border somewhere in the column span of the rectangle
BorderInSpan(sheet, rect, r) ==
    \E c \in rect[2]..rect[4] : has_border(Cell(sheet, r, c))

\* C21: every row below the first row of a rectangle returned by find_bordered_tables
\* carries a border in some column of the rectangle's column span: a border outside the
\* span has not extended the rectangle downward.
C21_GrowWithinSpan ==
    InSheet =>
        \A sheet \in {ws_sample, ws_imr} :
            \A rect \in TablesOf(sheet) :
                \A r \in (rect[1] + 1)..rect[3] : BorderInSpan(sheet, rect, r)

\* the result of the first round of merge_rectangles over the detected rectangles
FirstRound == MergeOuter(DetectedTables, 1, <<>>, {}, FALSE).rects

\* C22: in the union script merge_rectangles returns, with no more rectangles than it was
\* given, and its result is a fixed point: no two distinct rectangles of union_tables
\* overlap or touch, by rectangles_overlap_or_touch and cell by cell.
C22_MergeFixedPoint ==
    (script = "union" /\ TablesKnown) =>
        /\ Len(union_tables) <= Len(DetectedTables)
        /\ \A a, b \in 1..Len(union_tables) :
              a # b => /\ ~rectangles_overlap_or_touch(union_tables[a], union_tables[b])
                       /\ ~ZeroGap(union_tables[a], union_tables[b])

\* C22 witness: the first round of merging left two rectangles that touch, and the
\* rounds after it merged them
C22_Witness ==
    /\ script = "union" /\ TablesKnown
    /\ Len(DetectedTables) >= 3
    /\ \E a, b \in 1..Len(FirstRound) :
          a # b /\ rectangles_overlap_or_touch(FirstRound[a], FirstRound[b])
    /\ Len(union_tables) < Len(FirstRound)


\* ---------------------------------------------------------------------
\* Header rows of three header columns: exact and similar texts, repeated
\* texts, and two texts whose similarity is exactly the threshold
\* ---------------------------------------------------------------------
TextQtyx == <<"Q","t","y","x">>
TextQtyUpper == <<"Q","T","Y">>
TextQuantityBox == <<"q","u","a","n","t","i","t","y"," ","b","o","x">>
TextQuantityCase == <<"q","u","a","n","t","i","t","y"," ","c","a","s","e">>

SampleHeaderChoices == {StrVal(TextQty), StrVal(TextQtys), StrVal(TextQuantityBox)}

ImrHeaderChoices ==
    {None, StrVal(TextQty), StrVal(TextQtyLower), StrVal(TextQtyUpper), StrVal(TextQtyx),
     StrVal(TextQuantityCase)}

\* a bordered block of two rows and four columns
WideBlock == {<<r, c>> : r \in 1..2, c \in 1..4}

\* a header row of three header columns over one row of numbers
WideHeaders(h2, h3, h4) ==
    (<<1, 1>> :> StrVal(TextName)) @@ (<<1, 2>> :> h2) @@ (<<1, 3>> :> h3) @@ (<<1, 4>> :> h4)
    @@ (<<2, 1>> :> StrVal(TextRow)) @@ (<<2, 2>> :> IntVal(5)) @@ (<<2, 3>> :> IntVal(7))
    @@ (<<2, 4>> :> IntVal(9))

InitPairing ==
    /\ Start
    /\ NoConfig
    /\ script = "union"
    /\ \E s2 \in SampleHeaderChoices, s3 \in SampleHeaderChoices, s4 \in SampleHeaderChoices,
          i2 \in ImrHeaderChoices, i3 \in ImrHeaderChoices, i4 \in ImrHeaderChoices :
          /\ wb_sample = OneSheet(MakeSheet(WideBlock, WideHeaders(s2, s3, s4), NoCells, <<>>))
          /\ wb_imr = OneSheet(MakeSheet(WideBlock, WideHeaders(i2, i3, i4), NoCells, <<>>))

SpecPairing == InitPairing /\ [][Next]_vars


\* the texts of a header map
HeaderTexts(header_map) == {header_map[k][1] : k \in 1..Len(header_map)}

\* C23: in pair_columns_order_preserving, a header text present on both sides is paired
\* with itself, whatever the similarity of either to other headers and whatever their
\* positions, and the target header of that text is in no pair with another sample header.
C23_ExactPairsFirst ==
    (script = "union" /\ InSheet) =>
        \A t \in 1..Len(table_log) :
            \A s \in HeaderTexts(table_log[t].header_sample_map)
                          \cap HeaderTexts(table_log[t].header_imr_map) :
                /\ InSeq(table_log[t].paired, <<s, s>>)
                /\ \A p \in 1..Len(table_log[t].paired) :
                       table_log[t].paired[p][2] = s => table_log[t].paired[p][1] = s

\* an exact pair whose target header stands to the right of an equally similar target
\* header, after a sample header to its left that is similar to the paired target header
\* and did not get it
C23_Witness ==
    /\ script = "union" /\ InSheet
    /\ \E t \in 1..Len(table_log) :
          LET i_keys == DictKeys(table_log[t].header_imr_map)
          IN  \E s \in HeaderTexts(table_log[t].header_sample_map) :
                 /\ InSeq(table_log[t].paired, <<s, s>>)
                 /\ \E k \in 1..Len(i_keys) :
                       /\ k < SeqIndex(i_keys, s)
                       /\ header_similarity(s, i_keys[k]) = <<1, 1>>
                 /\ \E x \in HeaderTexts(table_log[t].header_sample_map) :
                       /\ x # s
                       /\ Similar(x, s)
                       /\ SeqIndex(DictKeys(table_log[t].header_sample_map), x)
                              < SeqIndex(DictKeys(table_log[t].header_sample_map), s)
                       /\ ~InSeq(table_log[t].paired, <<x, s>>)


\* two scores are the same fraction
ScoreEq(x, y) == x[1] * y[2] = y[1] * x[2]

\* the header texts present on both sides of table entry e
ExactTexts(e) == HeaderTexts(e.header_sample_map) \cap HeaderTexts(e.header_imr_map)

\* the target header paired with the sample header s in table entry e, as a set
PartnerOf(e, s) == {e.paired[p][2] : p \in {q \in 1..Len(e.paired) : e.paired[q][1] = s}}

\* the target headers no longer free when the fuzzy pass reaches the sample header s:
\* those of the exact pairs and the partners of the sample headers to the left of s
TakenBefore(e, s) ==
    LET s_keys == DictKeys(e.header_sample_map)
    IN  ExactTexts(e)
        \cup UNION {PartnerOf(e, x) : x \in {y \in HeaderTexts(e.header_sample_map) :
                                              SeqIndex(s_keys, y) < SeqIndex(s_keys, s)}}

\* the free target headers whose similarity to s is above the threshold
Candidates(e, s) ==
    {i \in HeaderTexts(e.header_imr_map) \ TakenBefore(e, s) : Similar(s, i)}

\* i has the highest similarity to s among the headers of cands, and is the leftmost such
LeftmostBest(e, s, cands, i) ==
    LET i_keys == DictKeys(e.header_imr_map)
    IN  /\ i \in cands
        /\ \A j \in cands :
              /\ ~ScoreGt(header_similarity(s, j), header_similarity(s, i))
              /\ ScoreEq(header_similarity(s, j), header_similarity(s, i))
                    => SeqIndex(i_keys, i) <= SeqIndex(i_keys, j)

\* C24: in pair_columns_order_preserving, a sample header without an identical target
\* header is paired with the free target header of highest similarity above 0.72, the
\* leftmost one on equal scores, where free means neither identical to a sample header
\* nor paired with a sample header further left; without such a header (a similarity of
\* exactly 0.72 included) it stays unpaired.
C24_FuzzyGreedy ==
    (script = "union" /\ InSheet) =>
        \A t \in 1..Len(table_log) :
            \A s \in HeaderTexts(table_log[t].header_sample_map) \ ExactTexts(table_log[t]) :
                IF Candidates(table_log[t], s) = {}
                THEN /\ PartnerOf(table_log[t], s) = {}
                     /\ InSeq(table_log[t].missing_in_imr, s)
                ELSE \E i \in Candidates(table_log[t], s) :
                        /\ LeftmostBest(table_log[t], s, Candidates(table_log[t], s), i)
                        /\ PartnerOf(table_log[t], s) = {i}

\* a row where one sample header has two equally similar free target headers, another
\* finds its leftmost best target header taken by a sample header to its left, and a
\* third has a free target header at a similarity of exactly 0.72 and stays unpaired
C24_Witness ==
    /\ script = "union" /\ InSheet
    /\ \E t \in 1..Len(table_log) :
          LET e == table_log[t]
              fuzzy == HeaderTexts(e.header_sample_map) \ ExactTexts(e)
              free == HeaderTexts(e.header_imr_map) \ ExactTexts(e)
          IN  /\ \E s \in fuzzy : \E i, j \in Candidates(e, s) :
                    /\ i # j
                    /\ ScoreEq(header_similarity(s, i), header_similarity(s, j))
                    /\ PartnerOf(e, s) = {i}
              /\ \E s \in fuzzy : \E i \in free :
                    /\ LeftmostBest(e, s, {x \in free : Similar(s, x)}, i)
                    /\ i \in TakenBefore(e, s)
                    /\ PartnerOf(e, s) # {}
              /\ \E s \in fuzzy : \E i \in free \ TakenBefore(e, s) :
                    /\ ScoreEq(header_similarity(s, i), similarity_threshold)
                    /\ InSeq(e.missing_in_imr, s)


\* C25 as stated: the pairs of a table are in ascending order of the column index of their
\* sample header, also when a header text occurs in more than one column of the header row.
C25_PairsByColumn ==
    (script = "union" /\ InSheet) =>
        \A t \in 1..Len(table_log) :
            \A p, q \in 1..Len(table_log[t].paired) :
                p < q => DictGet(table_log[t].header_sample_map, table_log[t].paired[p][1])
                            < DictGet(table_log[t].header_sample_map, table_log[t].paired[q][1])


\* the Value Mismatch records named Header at the header cell of the sample header s of
\* table entry e
HeaderMismatchesOf(e, s) ==
    {k \in 1..Len(ws_out) :
        /\ ws_out[k].type = "Value Mismatch"
        /\ ws_out[k].name = StrVal(HeaderText)
        /\ \/ ws_out[k].cell = <<e.rect[1], DictGet(e.header_sample_map, s)>>
           \/ ws_out[k].column = StrVal(s)}

\* C26: in the union table pass, a pair of different header texts has exactly one Value
\* Mismatch record named Header, at the sample header cell, with the sample text and the
\* target text; a pair of identical texts has none.
C26_HeaderMismatchOnce ==
    (script = "union" /\ InSheet) =>
        \A t \in 1..Len(table_log) :
            \A p \in 1..Len(table_log[t].paired) :
                LET e == table_log[t]
                    s == e.paired[p][1]
                    i == e.paired[p][2]
                IN  IF s # i
                    THEN /\ Cardinality(HeaderMismatchesOf(e, s)) = 1
                         /\ \A k \in HeaderMismatchesOf(e, s) :
                               /\ ws_out[k].cell = <<e.rect[1], DictGet(e.header_sample_map, s)>>
                               /\ ws_out[k].column = StrVal(s)
                               /\ ws_out[k].sample = s
                               /\ ws_out[k].generated = i
                    ELSE HeaderMismatchesOf(e, s) = {}

\* a table with a pair of identical texts and a pair of different texts, the latter on a
\* sample text that stands in two columns
C26_Witness ==
    /\ script = "union" /\ InSheet
    /\ \E t \in 1..Len(table_log) :
          /\ \E p \in 1..Len(table_log[t].paired) :
                table_log[t].paired[p][1] = table_log[t].paired[p][2]
          /\ \E p \in 1..Len(table_log[t].paired) :
                /\ table_log[t].paired[p][1] # table_log[t].paired[p][2]
                /\ get_effective_value(ws_sample, 1, 2) = StrVal(table_log[t].paired[p][1])
                /\ get_effective_value(ws_sample, 1, 4) = StrVal(table_log[t].paired[p][1])


(***************************************************************************)
(* One row of keys, numbers and gaps, with or without a one-cell table and *)
(* an ignored range                                                        *)
(***************************************************************************)
KeyCellChoices == {None, StrVal(TextStatus), IntVal(5)}

\* row 1 with the three given values
ScanRow(a, b, c) == (<<1, 1>> :> a) @@ (<<1, 2>> :> b) @@ (<<1, 3>> :> c)

InitKeyScan ==
    /\ Start
    /\ IGNORED_COLORS = <<>>
    /\ CELLS_TO_BE_ADDED = <<>>
    /\ IGNORED_RANGES \in {<<>>, <<RangeEntry(1, 2, 1, 2)>>}
    /\ script = "union"
    /\ \E s1 \in KeyCellChoices, s2 \in KeyCellChoices, s3 \in KeyCellChoices,
          i1 \in KeyCellChoices, i2 \in KeyCellChoices, i3 \in KeyCellChoices,
          b \in {{}, {<<1, 2>>}, {<<1, 3>>}} :
          /\ wb_sample = OneSheet(MakeSheet(b, ScanRow(s1, s2, s3), NoCells, <<>>))
          /\ wb_imr = OneSheet(MakeSheet({}, ScanRow(i1, i2, i3), NoCells, <<>>))

SpecKeyScan == InitKeyScan /\ [][Next]_vars

\* the scan of key_log entry e went through column cc without stopping there
PassedOver(e, cc) == \E k \in 1..Len(e.visited) : e.visited[k] > cc

\* C27 as stated: after the key/value pass of the union script, every key scan sent at
\* most one cell to compare_cell, to the right of the key on its row; no scan went on
\* past a table cell or a key-like cell of its source sheet; every key and every compared
\* cell is in processed_cells; and no later scan of the sheet has one of them as its key.
C27_KeyScan ==
    (script = "union" /\ pc = "summary") =>
        \A k \in 1..Len(key_log) :
            LET e == key_log[k]
            IN  /\ Len(e.compared) <= 1
                /\ \A n \in 1..Len(e.compared) :
                      /\ e.compared[n] > e.c
                      /\ InSeq(e.visited, e.compared[n])
                      /\ <<e.r, e.compared[n]>> \in processed_cells
                /\ \A cc \in (e.c + 1)..max_col_union :
                      PassedOver(e, cc) =>
                          /\ <<e.r, cc>> \notin table_cells
                          /\ ~looks_like_key(get_effective_value(SrcSheet(e.source), e.r, cc))
                /\ <<e.r, e.c>> \in processed_cells
                /\ \A j \in (k + 1)..Len(key_log) :
                      /\ <<key_log[j].r, key_log[j].c>> # <<e.r, e.c>>
                      /\ \A n \in 1..Len(e.compared) :
                            <<key_log[j].r, key_log[j].c>> # <<e.r, e.compared[n]>>


\* the number of positions of seq that hold x
CountIn(seq, x) == Cardinality({k \in 1..Len(seq) : seq[k] = x})

\* the positions of the pairs of e whose component n is x
PairsWith(e, n, x) == {p \in 1..Len(e.paired) : e.paired[p][n] = x}

\* C28: the result of pair_columns_order_preserving for a table is a one-to-one matching
\* and a partition: every pair joins a sample header and a target header of the table,
\* every sample header is in exactly one pair and not in missing_in_imr, or in no pair and
\* once in missing_in_imr, and every target header is in exactly one pair and not in
\* missing_in_sample, or in no pair and once in missing_in_sample.
C28_PairingPartition ==
    (script = "union" /\ InSheet) =>
        \A t \in 1..Len(table_log) :
            LET e == table_log[t]
            IN  /\ \A p \in 1..Len(e.paired) :
                      /\ e.paired[p][1] \in HeaderTexts(e.header_sample_map)
                      /\ e.paired[p][2] \in HeaderTexts(e.header_imr_map)
                /\ \A s \in HeaderTexts(e.header_sample_map) :
                      \/ Cardinality(PairsWith(e, 1, s)) = 1 /\ CountIn(e.missing_in_imr, s) = 0
                      \/ Cardinality(PairsWith(e, 1, s)) = 0 /\ CountIn(e.missing_in_imr, s) = 1
                /\ \A i \in HeaderTexts(e.header_imr_map) :
                      \/ Cardinality(PairsWith(e, 2, i)) = 1
                            /\ CountIn(e.missing_in_sample, i) = 0
                      \/ Cardinality(PairsWith(e, 2, i)) = 0
                            /\ CountIn(e.missing_in_sample, i) = 1
                /\ \A x \in 1..Len(e.missing_in_imr) :
                      e.missing_in_imr[x] \in HeaderTexts(e.header_sample_map)
                /\ \A x \in 1..Len(e.missing_in_sample) :
                      e.missing_in_sample[x] \in HeaderTexts(e.header_imr_map)

\* a table with a header left over on each side, the sample one similar to a target
\* header that is paired with another sample header
C28_Witness ==
    /\ script = "union" /\ InSheet
    /\ \E t \in 1..Len(table_log) :
          /\ Len(table_log[t].missing_in_sample) > 0
          /\ \E x \in 1..Len(table_log[t].missing_in_imr) :
                \E q \in 1..Len(table_log[t].paired) :
                    Similar(table_log[t].missing_in_imr[x], table_log[t].paired[q][2])


\* the cells within the bounds of a sheet that carry a border
BorderedCells(sheet) ==
    {p \in (1..max_row(sheet)) \X (1..max_column(sheet)) : has_border(Cell(sheet, p[1], p[2]))}

\* the rectangles cover the bordered cells of the sheet, each starts at a bordered cell,
\* and none starts inside a rectangle that comes before it
CoversBordered(sheet, tables) ==
    /\ \A p \in BorderedCells(sheet) : \E k \in 1..Len(tables) : p \in RectCells(tables[k])
    /\ \A k \in 1..Len(tables) : has_border(Cell(sheet, tables[k][1], tables[k][2]))
    /\ \A k \in 1..Len(tables) :
          \A j \in 1..(k - 1) : <<tables[k][1], tables[k][2]>> \notin RectCells(tables[j])

\* C29: for each sheet, every bordered cell within the sheet bounds lies in a rectangle
\* returned by find_bordered_tables, the top-left cell of every returned rectangle
\* carries a border, and no returned rectangle starts at a cell of a rectangle returned
\* before it.
C29_BorderedCovered ==
    InSheet =>
        /\ CoversBordered(ws_sample, find_bordered_tables(ws_sample))
        /\ CoversBordered(ws_imr, find_bordered_tables(ws_imr))

\* a sheet with two rectangles and a bordered cell that is inside the first one without
\* being its top-left cell
C29_Witness ==
    /\ InSheet
    /\ Len(find_bordered_tables(ws_sample)) = 2
    /\ \E p \in BorderedCells(ws_sample) :
          /\ p \in RectCells(find_bordered_tables(ws_sample)[1])
          /\ p # <<find_bordered_tables(ws_sample)[1][1], find_bordered_tables(ws_sample)[1][2]>>


(***************************************************************************)
(* Header rows under an ignore configuration that covers the header cells  *)
(***************************************************************************)
\* no fill, or the ignorable fill on the header cells and on the Qty cell of row 2
HeaderFills ==
    {NoCells,
     (<<1, 2>> :> RgbColor(Red)) @@ (<<1, 3>> :> RgbColor(Red)) @@ (<<2, 2>> :> RgbColor(Red))}

HeaderIgnoreConfig ==
    /\ IGNORED_COLORS \in {<<>>, <<Red>>}
    /\ CELLS_TO_BE_ADDED \in {<<>>, <<RangeEntry(1, 3, 1, 3)>>}
    /\ IGNORED_RANGES \in {<<>>, <<RangeEntry(1, 2, 1, 3)>>}

InitHeaderIgnore ==
    /\ Start
    /\ HeaderIgnoreConfig
    /\ script = "union"
    /\ \E s2 \in {None, StrVal(TextQty), StrVal(TextAmount)},
          s3 \in {None, StrVal(TextQty), StrVal(TextAmount)},
          i2 \in {None, StrVal(TextQtyLower), StrVal(TextAmount), StrVal(TextStatus)},
          i3 \in {None, StrVal(TextQtyLower), StrVal(TextAmount), StrVal(TextStatus)},
          fs \in HeaderFills, fi \in HeaderFills :
          /\ wb_sample = OneSheet(MakeSheet(Coords, WithHeaders(s2, s3), fs, <<>>))
          /\ wb_imr = OneSheet(MakeSheet(Coords, (<<2, 2>> :> IntVal(9)) @@ WithHeaders(i2, i3),
                                         fi, <<>>))

SpecHeaderIgnore == InitHeaderIgnore /\ [][Next]_vars

\* a record of the ignored bucket that is a header-level record of table entry e
IgnoredHeaderRecord(e, k) ==
    \/ ignored_issues[k].type \in {"Missing in report", "Missing in sample"}
    \/ ignored_issues[k].name = StrVal(HeaderText) /\ ignored_issues[k].cell[1] = e.rect[1]

\* C30: in the union table pass, under every ignore configuration, each pair of different
\* header texts has its Value Mismatch record, each header of missing_in_imr its Missing
\* in report record and each header of missing_in_sample its Missing in sample record in
\* the primary list, the ignored bucket holds no header-level record, and issues_count
\* counts every record of the primary list.
C30_HeaderRecordsPrimary ==
    (script = "union" /\ InSheet) =>
        /\ issues_count = Len(ws_out)
        /\ \A t \in 1..Len(table_log) :
              LET e == table_log[t]
              IN  /\ \A p \in 1..Len(e.paired) :
                        e.paired[p][1] # e.paired[p][2] =>
                            \E k \in RecordsOf("Value Mismatch", e.paired[p][1]) :
                                /\ ws_out[k].name = StrVal(HeaderText)
                                /\ ws_out[k].generated = e.paired[p][2]
                  /\ \A x \in 1..Len(e.missing_in_imr) :
                        RecordsOf("Missing in report", e.missing_in_imr[x]) # {}
                  /\ \A x \in 1..Len(e.missing_in_sample) :
                        RecordsOf("Missing in sample", e.missing_in_sample[x]) # {}
                  /\ \A k \in 1..Len(ignored_issues) : ~IgnoredHeaderRecord(e, k)

\* a table with the three kinds of header-level record in the primary list, whose header
\* cells have the ignorable fill on both sides and lie in an ignored range, one of them
\* also in a force-include range, while a record of a data row is in the ignored bucket
C30_Witness ==
    /\ script = "union" /\ InSheet
    /\ IGNORED_COLORS = <<Red>>
    /\ is_cell_in_ignored_ranges(1, 2) /\ is_cell_in_ignored_ranges(1, 3)
    /\ is_cell_in_added_ranges(1, 3)
    /\ is_cell_in_ignored_range(ws_sample, 1, 2) /\ is_cell_in_ignored_range(ws_imr, 1, 2)
    /\ is_cell_ignored(ws_sample, ws_imr, 1, 2)
    /\ \E t \in 1..Len(table_log) :
          /\ \E p \in 1..Len(table_log[t].paired) :
                table_log[t].paired[p][1] # table_log[t].paired[p][2]
          /\ Len(table_log[t].missing_in_imr) > 0
          /\ Len(table_log[t].missing_in_sample) > 0
    /\ Len(ignored_issues) > 0
    /\ Len(ws_out) >= 3

====
